---- MODULE Spec2Model ----
(***************************************************************************)
(* A model of the routing-and-timeline core of bandabi:                    *)
(*   - routing/tsp.py and routing/route_solver.py (tour sequencing),       *)
(*   - pipeline.py (_split_vehicles_df, _simulate_timeline),               *)
(*   - clustering.py (split_requests_into_buses),                          *)
(*   - metrics.py (compute_kpis),                                          *)
(*   - time_model.py (build_time_model, EuclidTimeModel, RoadTimeModel).   *)
(* Each component is a set of variables, an Init and the actions that call *)
(* its functions; a component's specification leaves the other components  *)
(* idle.  Python lists are sequences: Python index k is TLA+ index k + 1.  *)
(***************************************************************************)
EXTENDS Integers, Sequences, FiniteSets, TLC

VARIABLES
    \* ---- tour sequencing (routing/tsp.py, routing/route_solver.py)
    points,      \* the point set: [0..n-1 -> <<x, y>>], index 0 the depot
    dist_mat,    \* the n x n cost matrix: [0..n-1 -> [0..n-1 -> Nat]]
    call,        \* the call being made: its function and keyword arguments
    tpc,         \* "idle", "tabu" (inside _tabu_search's loop) or "done"
    tour_in,     \* the tour handed to the improvement step
    route,       \* the value returned
    terr,        \* "none", or the exception raised
    tb,          \* the locals of _tabu_search while its loop runs
    \* ---- timeline simulation (pipeline._simulate_timeline)
    tl_in,       \* the arguments: route_points, dist_mat, start_min, end_at
    times,       \* the list returned, or <<>> before the call
    tl_total,    \* the local `total` of the call
    tl_again,    \* the timeline of the call that re-anchors times at its own start
    tlpc,        \* "idle", "done" or "reanchored"
    \* ---- group partitioning (pipeline._split_vehicles_df, clustering.py)
    pt_in,       \* the arguments: g (the requests), cap, max_veh, fn, strategy
    vehicles,    \* the list of groups returned
    perr,        \* "none", or the exception raised
    ptpc,        \* "idle" or "done"
    \* ---- KPI aggregation (metrics.compute_kpis)
    events_df,   \* the event table: its columns and its rows
    cfg,         \* the configuration: cfg["kpi"]
    kpis,        \* <<summary>> when a summary was returned, else <<>>
    kerr,        \* "none", or the exception raised
    kpc,         \* "idle" or "done"
    \* ---- road travel-time model (time_model.RoadTimeModel)
    G,           \* self.G: [nodes, w] with w[u][v] the edge weight in seconds, 0 none
    G_u,         \* self.G_u, the undirected mirror, in the same form
    nn_cache,    \* lru_cache of _nearest_node: rounded coordinate -> node
    od_cache,    \* lru_cache of _od_time_min: <<u, v>> -> <<seconds>>, NoneF for nan
    q,           \* the last mean_travel_min query and what it returned
    rpc,         \* "raw" (graph loaded), "ready" (constructed), "answered"
    \* ---- travel-time model factory and geometric model (time_model.py)
    tm_cfg,      \* the cfg given to build_time_model
    tm,          \* the model built: its class, its fields, its generator's state
    tm_err,      \* "none", or the exception raised
    stream,      \* the noise factors the seeded generator yields, in order
    tm_q,        \* the last travel-time query and what it returned
    tmpc,        \* "cfg" (nothing built), "built", "failed"
    \* ---- the simulation loop (pipeline.run); its locals points, dist_mean
    \* and route_points are the variables points, dist_mat and route, its
    \* travel-time model is tm
    run_in,      \* the run's input: the vehicle groups, their processing order, cfg
    run_k,       \* the number of vehicle groups processed
    v_idx,       \* the number of vehicles of the current group processed
    dist_act,    \* the sampled matrix of the group processed last
    promise_times, \* its promised timeline
    actual_times,  \* its actual timeline
    run_out,     \* group -> what the loop computed for it
    all_events,  \* the event rows appended so far
    runpc,       \* "start", "loop", "vehicles", "route", "raised", "done"
    \* ---- legacy hybrid router (src/legacy/routing.py)
    leg_in,      \* hybrid_route's arguments: nodes and dist_mat
    leg_tape,    \* what the random module returned to the GA, in order
    leg_route,   \* the tour hybrid_route returned
    leg_children,\* the individuals the GA made by crossover and mutation
    leg_err,     \* "none", or the exception raised
    legpc,       \* "idle", "returned", "raised"
    \* ---- queries of several workers on one RoadTimeModel
    workers,     \* worker -> its query, its position in it and its locals
    nn_of        \* the spatial index of the retained graph: coordinate -> node

tourVars == <<points, dist_mat, call, tpc, tour_in, route, terr, tb>>
tlVars == <<tl_in, times, tl_total, tl_again, tlpc>>
ptVars == <<pt_in, vehicles, perr, ptpc>>
kpiVars == <<events_df, cfg, kpis, kerr, kpc>>
roadVars == <<G, G_u, nn_cache, od_cache, q, rpc>>
tmVars == <<tm_cfg, tm, tm_err, stream, tm_q, tmpc>>
shVars == <<workers, nn_of>>
legVars == <<leg_in, leg_tape, leg_route, leg_children, leg_err, legpc>>
runVars == <<run_in, run_k, v_idx, dist_act, promise_times, actual_times, run_out, all_events, runpc>>
vars == <<tourVars, tlVars, ptVars, kpiVars, roadVars, tmVars, runVars, legVars, shVars>>

\* Python's None.
None == "None"

(***************************************************************************)
(* Bounds of the model.                                                    *)
(***************************************************************************)
\* The largest point set (depot included).
MaxN == 5
\* The largest entry of an arbitrary cost matrix.
MaxD == 2
\* The largest iteration count given to tabu search when called on its own.
TabuIters == 3
\* The largest tabu_iters given to route_solver.solve_tsp.
SolveIters == 2
\* The largest point set handed to the timeline simulator.
MaxTlN == 3
\* The largest time anchor (minutes).
MaxAnchor == 12
\* The most requests in one (center, slot, class) group.
MaxReq == 5
\* The largest vehicle capacity and the largest vehicle cap.
MaxCap == 3
MaxVeh == 3
\* The most events in a run, the latest time in an event, the largest threshold.
MaxEvents == 2
MaxT == 3
MaxThr == 1
\* The nodes of the road graph and the longest edge travel time (seconds).
RoadNodes == 3
MaxW == 2
\* The farthest coordinate (km along a line) and the noise draws a generator
\* stream holds.
MaxKm == 2
MaxDraws == 3
\* Significand bits of the scaled-down floating-point format (binary64 has 53).
MantBits == 3
\* The customers of the legacy router, and the positions its random draws
\* range over.
MaxLegN == 5
MaxPick == 3
\* The longest chain of the 2-opt pass-count instances, and the largest pass
\* cap a caller configures.
MaxChain == 3
MaxPassCap == 3

(***************************************************************************)
(* Floating point.  Python's float is IEEE-754 binary64: every + and -     *)
(* rounds its exact result to the nearest representable value, ties to the *)
(* even significand.  The model keeps that arithmetic with a significand   *)
(* of MantBits bits over the integers: x is representable iff x = m * 2^e  *)
(* with |m| < 2^MantBits and e >= 0.                                       *)
(***************************************************************************)
Abs(x) == IF x < 0 THEN -x ELSE x

RECURSIVE Pow2(_)
Pow2(k) == IF k = 0 THEN 1 ELSE 2 * Pow2(k - 1)

\* The spacing of the representable values around magnitude m.
RECURSIVE Ulp(_, _)
Ulp(m, u) == IF m < Pow2(MantBits) * u THEN u ELSE Ulp(m, 2 * u)

\* Round-to-nearest, ties-to-even.
Fl(x) ==
    LET m == Abs(x)
        u == Ulp(m, 1)
        lo == (m \div u) * u
        r == m - lo
        up == \/ 2 * r > u
              \/ 2 * r = u /\ (lo \div u) % 2 = 1
        v == IF up THEN lo + u ELSE lo
    IN  IF x < 0 THEN -v ELSE v

FAdd(a, b) == Fl(a + b)
FSub(a, b) == Fl(a - b)

Min(S) == CHOOSE x \in S : \A y \in S : x <= y
Max(S) == CHOOSE x \in S : \A y \in S : x >= y

\* Python slicing s[a:b] and s[::-1].
Slice(s, a, b) == SubSeq(s, a + 1, b)
Reverse(s) == [k \in 1..Len(s) |-> s[Len(s) + 1 - k]]
\* s[k] with Python's index.
At(s, k) == s[k + 1]

(***************************************************************************)
(* Tour sequencing: routing/tsp.py                                         *)
(***************************************************************************)
\* The integer square root; exact on the perfect squares the inputs produce.
ISqrt(x) == CHOOSE r \in 0..x : r * r <= x /\ (r + 1) * (r + 1) > x

\* tsp._euclid
tsp_euclid(p1, p2) ==
    ISqrt((p1[1] - p2[1]) * (p1[1] - p2[1]) + (p1[2] - p2[2]) * (p1[2] - p2[2]))

\* The cost of one edge: dist_mat[a, b], or _euclid when dist_mat is None.
EdgeCost(use_mat, a, b) ==
    IF use_mat THEN dist_mat[a][b] ELSE tsp_euclid(points[a], points[b])

\* tsp._route_cost: cost = 0.0; cost += edge, left to right.
RECURSIVE tsp_cost_from(_, _, _, _)
tsp_cost_from(use_mat, r, k, acc) ==
    IF k >= Len(r) THEN acc
    ELSE tsp_cost_from(use_mat, r, k + 1, FAdd(acc, EdgeCost(use_mat, r[k], r[k + 1])))

tsp_route_cost(r, use_mat) == tsp_cost_from(use_mat, r, 1, 0)

\* `c + 1e-9 < best_cost`: the costs of the model lie on the integer grid, so
\* adding 1e-9 to c changes the outcome of the comparison with no best_cost.
LessByEps(c, best_cost) == c < best_cost

\* max(unvisited, key=...): the farthest unvisited node instead of the nearest.
FarthestUnvisited(method, cur, unvisited) ==
    LET key(i) == IF method = "euclid_nn" THEN tsp_euclid(points[cur], points[i])
                  ELSE dist_mat[cur][i]
    IN  CHOOSE i \in unvisited :
            \A j \in unvisited : key(i) > key(j) \/ (key(i) = key(j) /\ i <= j)

\* min(unvisited, key=...): the first element, in the set's iteration order
\* (ascending for a set of small ints), that attains the least key.
NearestUnvisited(method, cur, unvisited) ==
    LET key(i) == IF method = "euclid_nn" THEN tsp_euclid(points[cur], points[i])
                  ELSE dist_mat[cur][i]
    IN  CHOOSE i \in unvisited :
            \A j \in unvisited : key(i) < key(j) \/ (key(i) = key(j) /\ i <= j)

\* The while-unvisited loop of tsp.solve_tsp and the final route.append(0).
RECURSIVE tsp_nn(_, _, _, _)
tsp_nn(method, cur, unvisited, r) ==
    IF unvisited = {} THEN Append(r, 0)
    ELSE LET nxt == NearestUnvisited(method, cur, unvisited)
         IN  tsp_nn(method, nxt, unvisited \ {nxt}, Append(r, nxt))

\* A slip in the reversal's last slice, best[j+1:], which loses the node at j.
tsp_cand_drops_node(best, i, j) ==
    Slice(best, 0, i) \o Reverse(Slice(best, i, j)) \o Slice(best, j + 1, Len(best))

\* The reversal taking in position j: best[:i] + best[i:j+1][::-1] + best[j+1:].
tsp_cand_through_j(best, i, j) ==
    Slice(best, 0, i) \o Reverse(Slice(best, i, j + 1)) \o Slice(best, j + 1, Len(best))

\* The reversal candidate of tsp._two_opt: best[:i] + best[i:j][::-1] + best[j:].
tsp_cand(best, i, j) ==
    Slice(best, 0, i) \o Reverse(Slice(best, i, j)) \o Slice(best, j, Len(best))

\* tsp._two_opt accepts a candidate.
tsp_accept(c, best_cost) == LessByEps(c, best_cost)

\* One pass of tsp._two_opt's for loops, from the pair (i, j) on.
RECURSIVE tsp_pass(_, _, _, _)
tsp_pass(use_mat, st, i, j) ==
    LET L == Len(st.best) IN
    IF i > L - 3 THEN st
    ELSE IF j > L - 2 THEN tsp_pass(use_mat, st, i + 1, i + 2)
    ELSE IF j - i = 1 THEN tsp_pass(use_mat, st, i, j + 1)
    ELSE LET cand == tsp_cand(st.best, i, j)
             c == tsp_route_cost(cand, use_mat)
         IN  IF tsp_accept(c, st.best_cost)
             THEN tsp_pass(use_mat,
                           [st EXCEPT !.best = cand, !.best_cost = c, !.improved = TRUE],
                           i, j + 1)
             ELSE tsp_pass(use_mat, st, i, j + 1)

\* tsp._two_opt's `while improved` loop; passes counts its iterations.
RECURSIVE tsp_two_opt_loop(_, _)
tsp_two_opt_loop(use_mat, st) ==
    IF ~st.improved THEN st
    ELSE tsp_two_opt_loop(use_mat,
            tsp_pass(use_mat,
                     [st EXCEPT !.improved = FALSE, !.passes = st.passes + 1], 1, 2))

tsp_two_opt_run(r, use_mat) ==
    tsp_two_opt_loop(use_mat,
        [best |-> r, best_cost |-> tsp_route_cost(r, use_mat),
         improved |-> TRUE, passes |-> 0])

\* tsp._two_opt
tsp_two_opt(r, use_mat) == tsp_two_opt_run(r, use_mat).best

\* The selectors tsp.solve_tsp accepts.
tsp_methods == {"euclid_nn", "time_nn"}

\* tsp.solve_tsp: [route, err].  has_mat says whether dist_mat was given.
tsp_solve_tsp(n, has_mat, method, improve_2opt) ==
    IF n = 0 THEN [route |-> <<>>, err |-> "none"]
    ELSE IF n = 1 THEN [route |-> <<0, 0>>, err |-> "none"]
    ELSE IF method \notin tsp_methods THEN [route |-> <<>>, err |-> "ValueError"]
    ELSE IF method = "time_nn" /\ ~has_mat THEN [route |-> <<>>, err |-> "ValueError"]
    ELSE LET r == tsp_nn(method, 0, 1..(n - 1), <<0>>)
         IN  IF improve_2opt /\ Len(r) > 4
             THEN [route |-> tsp_two_opt(r, method = "time_nn"), err |-> "none"]
             ELSE [route |-> r, err |-> "none"]

(***************************************************************************)
(* Tour sequencing: routing/route_solver.py                                *)
(***************************************************************************)
\* route_solver._route_cost: c = 0.0; c += dist_mat[route[i], route[i+1]].
RECURSIVE rs_cost_from(_, _, _)
rs_cost_from(r, k, acc) ==
    IF k >= Len(r) THEN acc
    ELSE rs_cost_from(r, k + 1, FAdd(acc, dist_mat[r[k]][r[k + 1]]))

rs_route_cost(r) == rs_cost_from(r, 1, 0)

\* route_solver._nearest_neighbor
RECURSIVE rs_nearest_neighbor(_, _, _)
rs_nearest_neighbor(cur, unvisited, path) ==
    IF unvisited = {} THEN Append(path, 0)
    ELSE LET nxt == NearestUnvisited("time_nn", cur, unvisited)
         IN  rs_nearest_neighbor(nxt, unvisited \ {nxt}, Append(path, nxt))

\* The reversal candidate of route_solver._two_opt:
\* best[:i] + best[i:k+1][::-1] + best[k+1:].
rs_cand(best, i, k) ==
    Slice(best, 0, i) \o Reverse(Slice(best, i, k + 1)) \o Slice(best, k + 1, Len(best))

\* The comparison the wrong way round: a costlier candidate is taken.
rs_accept_reversed(c, best_cost) == LessByEps(best_cost, c)

\* route_solver._two_opt accepts a candidate.
rs_accept(c, best_cost) == LessByEps(c, best_cost)

\* One pass of route_solver._two_opt's for loops, from the pair (i, k) on.
RECURSIVE rs_pass(_, _, _)
rs_pass(st, i, k) ==
    LET n == Len(st.best) IN
    IF i > n - 4 THEN st
    ELSE IF k > n - 3 THEN rs_pass(st, i + 1, i + 2)
    ELSE LET new == rs_cand(st.best, i, k)
             c == rs_route_cost(new)
         IN  IF rs_accept(c, st.best_cost)
             THEN rs_pass([st EXCEPT !.best = new, !.best_cost = c, !.improved = TRUE],
                          i, k + 1)
             ELSE rs_pass(st, i, k + 1)

\* `while improved and passes < max_passes`
RECURSIVE rs_two_opt_loop(_, _)
rs_two_opt_loop(st, max_passes) ==
    IF ~(st.improved /\ st.passes < max_passes) THEN st
    ELSE rs_two_opt_loop(
            rs_pass([st EXCEPT !.improved = FALSE, !.passes = st.passes + 1], 1, 2),
            max_passes)

rs_two_opt_run(r, max_passes) ==
    rs_two_opt_loop([best |-> r, best_cost |-> rs_route_cost(r),
                     improved |-> TRUE, passes |-> 0], max_passes)

\* route_solver._two_opt
rs_two_opt(r, max_passes) == rs_two_opt_run(r, max_passes).best

\* The defaults of route_solver._two_opt and route_solver._tabu_search.
DefaultMaxPasses == 30
SmallMaxPasses == 10
DefaultTenure == 20
\* `if n < 6` of _tabu_search.
SmallN == 6

\* The locals of _tabu_search before its first iteration; least_cur is a
\* history of the run, the least cost among the input tour and the tours
\* accepted as cur so far.
tabu_init(r, iters, tenure) ==
    [t |-> 0, iters |-> iters, tenure |-> tenure,
     best |-> r, best_cost |-> rs_route_cost(r),
     cur |-> r, cur_cost |-> rs_route_cost(r),
     tabu |-> <<>>, least_cur |-> rs_route_cost(r)]

\* neighbors(r) for the two draws i, k of rng.randrange(1, n - 2): [cand, move],
\* cand = None when the draws are equal.
neighbors(r, i0, k0) ==
    IF i0 = k0 THEN [cand |-> <<>>, move |-> <<>>, none |-> TRUE]
    ELSE LET i == IF i0 > k0 THEN k0 ELSE i0
             k == IF i0 > k0 THEN i0 ELSE k0
             rr == [r EXCEPT ![i + 1] = At(r, k), ![k + 1] = At(r, i)]
         IN  [cand |-> rr, move |-> <<At(r, i), At(r, k)>>, none |-> FALSE]

\* `move in tabu and tabu[move] >= t`: an entry still tabu at its expiry.
is_tabu_at_expiry(tabu, move, t) == move \in DOMAIN tabu /\ tabu[move] >= t

\* `move in tabu and tabu[move] > t`
is_tabu(tabu, move, t) == move \in DOMAIN tabu /\ tabu[move] > t

\* `(not is_tabu) or (c < best_cost)`
tabu_accept(tabu, move, t, c, best_cost) == ~is_tabu(tabu, move, t) \/ c < best_cost

\* tabu[move] = value
DictSet(d, key, value) ==
    [x \in DOMAIN d \cup {key} |-> IF x = key THEN value ELSE d[x]]

\* One iteration of `for t in range(iters)` with the draws i0, k0.
tabu_step(s, i0, k0) ==
    LET nb == neighbors(s.cur, i0, k0)
        c == rs_route_cost(nb.cand)
        next_t == [s EXCEPT !.t = s.t + 1]
    IN  IF nb.none THEN next_t
        ELSE IF tabu_accept(s.tabu, nb.move, s.t, c, s.best_cost)
        THEN LET s1 == [next_t EXCEPT !.cur = nb.cand, !.cur_cost = c,
                                      !.tabu = DictSet(s.tabu, nb.move, s.t + s.tenure),
                                      !.least_cur = IF c < s.least_cur THEN c ELSE s.least_cur]
             IN  IF c < s.best_cost
                 THEN [s1 EXCEPT !.best = nb.cand, !.best_cost = c]
                 ELSE s1
        ELSE next_t

\* What _tabu_search would return with `return cur`.
tabu_result_current(s) == s.cur

\* `return best` of _tabu_search.
tabu_result(s) == s.best

\* The selectors route_solver.solve_tsp documents.
rs_methods == {None, "none", "two_opt", "tabu"}

\* route_solver.solve_tsp up to its return or its entry into tabu search's loop:
\* [route, err, tabu] with tabu = TRUE when _tabu_search's loop is to run on route.
rs_solve_tsp(n, improve_method) ==
    IF n <= 1 THEN [route |-> <<0, 0>>, err |-> "none", tabu |-> FALSE]
    ELSE LET r == rs_nearest_neighbor(0, 1..(n - 1), <<0>>) IN
         IF improve_method \in {None, "none"}
         THEN [route |-> r, err |-> "none", tabu |-> FALSE]
         ELSE IF improve_method = "two_opt"
         THEN [route |-> rs_two_opt(r, DefaultMaxPasses), err |-> "none", tabu |-> FALSE]
         ELSE IF improve_method = "tabu"
         THEN IF Len(r) < SmallN
              THEN [route |-> rs_two_opt(r, SmallMaxPasses), err |-> "none", tabu |-> FALSE]
              ELSE [route |-> r, err |-> "none", tabu |-> TRUE]
         ELSE [route |-> r, err |-> "none", tabu |-> FALSE]

(***************************************************************************)
(* Tour sequencing: the inputs and the calls                               *)
(***************************************************************************)
\* The number of points.
NumPoints == Cardinality(DOMAIN points)

\* Coordinates whose pairwise Euclidean distances (0, 3, 4, 5) are integers,
\* so that _euclid's square root is exact.
Grid == <<(<<0, 0>>), (<<3, 0>>), (<<0, 4>>), (<<3, 4>>)>>

\* Point sets of n points: the depot at the origin, the pickups listed in the
\* order of the grid's corners.
PointSets(n) ==
    {[i \in 0..(n - 1) |-> Grid[g[i]]] :
        g \in {h \in [0..(n - 1) -> 1..4] :
                  /\ n > 0 => h[0] = 1
                  /\ \A i \in 1..(n - 2) : h[i] <= h[i + 1]}}

\* The mean travel-time matrix of a point set: the distance, plus a surcharge
\* on the trips from a lower to a higher index, which makes it asymmetric.
TravelMat(p, skew) ==
    [i \in DOMAIN p |-> [j \in DOMAIN p |->
        IF i = j THEN 0
        ELSE tsp_euclid(p[i], p[j]) + (IF i < j THEN skew ELSE 0)]]

\* Every n x n matrix with entries in 0..MaxD and a zero diagonal.
AnyMat(n) ==
    {m \in [0..(n - 1) -> [0..(n - 1) -> 0..MaxD]] : \A i \in 0..(n - 1) : m[i][i] = 0}

TourInputs ==
    UNION {
        {[points |-> p, dist_mat |-> TravelMat(p, skew)] :
            p \in PointSets(n), skew \in {0, 1}} : n \in 0..MaxN}
    \cup UNION {
        {[points |-> [i \in 0..(n - 1) |-> <<0, 0>>], dist_mat |-> m] : m \in AnyMat(n)} :
            n \in 0..3}

\* The round trips over n points (the empty list when there is no point).
Tours(n) ==
    IF n = 0 THEN {<<>>} ELSE
    {<<0>> \o perm \o <<0>> :
        perm \in {s \in [1..(n - 1) -> 1..(n - 1)] :
                     \A a, b \in 1..(n - 1) : s[a] = s[b] => a = b}}

NoCall ==
    [fn |-> "none", method |-> "", improve_2opt |-> FALSE, has_mat |-> FALSE,
     tabu_iters |-> 0, max_passes |-> 0]
NoTabu ==
    [t |-> 0, iters |-> 0, tenure |-> 0, best |-> <<>>, best_cost |-> 0,
     cur |-> <<>>, cur_cost |-> 0, tabu |-> <<>>, least_cur |-> 0]

TourIdle ==
    /\ points = <<>> /\ dist_mat = <<>> /\ call = NoCall /\ tpc = "off"
    /\ tour_in = <<>> /\ route = <<>> /\ terr = "none" /\ tb = NoTabu

TourInit ==
    /\ \E inp \in TourInputs : points = inp.points /\ dist_mat = inp.dist_mat
    /\ call = NoCall /\ tpc = "idle"
    /\ tour_in = <<>> /\ route = <<>> /\ terr = "none" /\ tb = NoTabu

\* A call of tsp.solve_tsp(points, dist_mat, method=..., improve_2opt=...).
CallTspSolve ==
    /\ tpc = "idle"
    /\ \E method \in tsp_methods \cup {"ortools"}, improve \in BOOLEAN, has_mat \in BOOLEAN :
         LET res == tsp_solve_tsp(NumPoints, has_mat, method, improve) IN
         /\ call' = [NoCall EXCEPT !.fn = "tsp.solve_tsp", !.method = method,
                                   !.improve_2opt = improve, !.has_mat = has_mat]
         /\ tour_in' = IF NumPoints >= 2 /\ res.err = "none"
                       THEN tsp_nn(method, 0, 1..(NumPoints - 1), <<0>>) ELSE <<>>
         /\ route' = res.route
         /\ terr' = res.err
    /\ tpc' = "done"
    /\ UNCHANGED <<points, dist_mat, tb, tlVars, ptVars, kpiVars, roadVars, tmVars, runVars, legVars, shVars>>

\* A call of route_solver.solve_tsp(points, dist_mat, improve_method, seed, tabu_iters);
\* with improve_method "tabu" on six or more positions it enters tabu search's loop.
CallRsSolve ==
    /\ tpc = "idle"
    /\ \E method \in rs_methods \cup {"ga"}, iters \in 0..SolveIters :
         LET res == rs_solve_tsp(NumPoints, method) IN
         /\ call' = [NoCall EXCEPT !.fn = "route_solver.solve_tsp", !.method = method,
                                   !.has_mat = TRUE, !.tabu_iters = iters]
         /\ tour_in' = IF NumPoints >= 2
                       THEN rs_nearest_neighbor(0, 1..(NumPoints - 1), <<0>>) ELSE <<>>
         /\ terr' = res.err
         /\ IF res.tabu
            THEN /\ tb' = tabu_init(res.route, iters, DefaultTenure)
                 /\ route' = <<>>
                 /\ tpc' = "tabu"
            ELSE /\ tb' = tb
                 /\ route' = res.route
                 /\ tpc' = "done"
    /\ UNCHANGED <<points, dist_mat, tlVars, ptVars, kpiVars, roadVars, tmVars, runVars, legVars, shVars>>

\* One iteration of _tabu_search's loop; i0 and k0 are the two rng.randrange draws.
TabuIter ==
    /\ tpc = "tabu"
    /\ tb.t < tb.iters
    /\ \E i0, k0 \in 1..(Len(tb.cur) - 3) : tb' = tabu_step(tb, i0, k0)
    /\ UNCHANGED <<points, dist_mat, call, tpc, tour_in, route, terr,
                   tlVars, ptVars, kpiVars, roadVars, tmVars, runVars, legVars, shVars>>

\* `return best` of _tabu_search.
TabuReturn ==
    /\ tpc = "tabu"
    /\ tb.t = tb.iters
    /\ route' = tabu_result(tb)
    /\ tpc' = "done"
    /\ UNCHANGED <<points, dist_mat, call, tour_in, terr, tb,
                   tlVars, ptVars, kpiVars, roadVars, tmVars, runVars, legVars, shVars>>

\* A call of tsp._two_opt(route, dist_mat or None, points) on any round trip.
CallTspTwoOpt ==
    /\ tpc = "idle"
    /\ \E tour \in Tours(NumPoints), use_mat \in BOOLEAN :
         /\ call' = [NoCall EXCEPT !.fn = "tsp._two_opt", !.has_mat = use_mat]
         /\ tour_in' = tour
         /\ route' = tsp_two_opt(tour, use_mat)
    /\ terr' = "none"
    /\ tpc' = "done"
    /\ UNCHANGED <<points, dist_mat, tb, tlVars, ptVars, kpiVars, roadVars, tmVars, runVars, legVars, shVars>>

\* A call of route_solver._two_opt(route, dist_mat) on any round trip.
CallRsTwoOpt ==
    /\ tpc = "idle"
    /\ \E tour \in Tours(NumPoints), max_passes \in {DefaultMaxPasses, SmallMaxPasses} :
         /\ call' = [NoCall EXCEPT !.fn = "route_solver._two_opt", !.has_mat = TRUE,
                                   !.max_passes = max_passes]
         /\ tour_in' = tour
         /\ route' = rs_two_opt(tour, max_passes)
    /\ terr' = "none"
    /\ tpc' = "done"
    /\ UNCHANGED <<points, dist_mat, tb, tlVars, ptVars, kpiVars, roadVars, tmVars, runVars, legVars, shVars>>

TourNext ==
    \/ CallTspSolve
    \/ CallRsSolve
    \/ TabuIter
    \/ TabuReturn
    \/ CallTspTwoOpt
    \/ CallRsTwoOpt

\* ---- the other components, idle
TlIdle == tl_in = None /\ times = <<>> /\ tl_total = 0 /\ tl_again = <<>> /\ tlpc = "off"
PtIdle == pt_in = None /\ vehicles = <<>> /\ perr = "none" /\ ptpc = "off"
KpiIdle == events_df = None /\ cfg = None /\ kpis = <<>> /\ kerr = "none" /\ kpc = "off"
RoadIdle ==
    /\ G = None /\ G_u = None /\ nn_cache = <<>> /\ od_cache = <<>>
    /\ q = None /\ rpc = "off"
TmIdle ==
    /\ tm_cfg = None /\ tm = None /\ tm_err = "none" /\ stream = <<>>
    /\ tm_q = None /\ tmpc = "off"
RunIdle ==
    /\ run_in = None /\ run_k = 0 /\ v_idx = 0 /\ dist_act = <<>> /\ promise_times = <<>>
    /\ actual_times = <<>> /\ run_out = <<>> /\ all_events = <<>> /\ runpc = "off"
SharedIdle == workers = <<>> /\ nn_of = <<>>
LegIdle ==
    /\ leg_in = None /\ leg_tape = <<>> /\ leg_route = <<>> /\ leg_children = <<>>
    /\ leg_err = "none" /\ legpc = "off"

InitTour == TourInit /\ TlIdle /\ PtIdle /\ KpiIdle /\ RoadIdle /\ TmIdle /\ RunIdle /\ LegIdle /\ SharedIdle
SpecTour == InitTour /\ [][TourNext]_vars

(***************************************************************************)
(* Tour sequencing: the claims                                             *)
(***************************************************************************)
\* r is a round trip over n points: n + 1 positions, the depot 0 first and
\* last and nowhere else, every pickup 1..n-1 exactly once.
ValidTour(r, n) ==
    /\ Len(r) = n + 1
    /\ r[1] = 0
    /\ r[n + 1] = 0
    /\ \A k \in 2..n : r[k] # 0
    /\ \A v \in 1..(n - 1) : Cardinality({k \in 1..Len(r) : r[k] = v}) = 1

\* The call names a sequencing strategy the function recognises.
KnownSelector ==
    \/ call.fn = "tsp.solve_tsp" /\ call.method \in tsp_methods
    \/ call.fn = "route_solver.solve_tsp" /\ call.method \in rs_methods

UnknownSelector ==
    \/ call.fn = "tsp.solve_tsp" /\ call.method \notin tsp_methods
    \/ call.fn = "route_solver.solve_tsp" /\ call.method \notin rs_methods

\* C1: for n >= 1 points and a given matrix, the tour returned by tsp.solve_tsp
\* (euclid_nn, time_nn, with or without 2-opt) and by route_solver.solve_tsp
\* (none, two_opt, tabu) has n + 1 positions, node 0 first and last and nowhere
\* else, and every index 1..n-1 exactly once.
C1_TourInvariant ==
    (/\ tpc = "done"
     /\ NumPoints >= 1
     /\ KnownSelector
     /\ (call.method = "time_nn" => call.has_mat))
    => (terr = "none" /\ ValidTour(route, NumPoints))

\* C1's case: tabu search ran all its iterations on a six-position tour and
\* returned a tour other than the nearest-neighbour one.
C1_Witness ==
    /\ tpc = "done"
    /\ call.fn = "route_solver.solve_tsp"
    /\ call.method = "tabu"
    /\ NumPoints = 5
    /\ tb.t = SolveIters
    /\ route # tour_in
    /\ ValidTour(route, NumPoints)

\* The cost of a tour as the called module's _route_cost computes it.
CallCost(r) ==
    IF call.fn \in {"tsp._two_opt"} THEN tsp_route_cost(r, call.has_mat)
    ELSE IF call.fn = "tsp.solve_tsp" THEN tsp_route_cost(r, call.method = "time_nn")
    ELSE rs_route_cost(r)

\* The call ran 2-opt on tour_in and returned its result.
RanTwoOpt ==
    /\ tpc = "done"
    /\ terr = "none"
    /\ \/ call.fn \in {"tsp._two_opt", "route_solver._two_opt"}
       \/ /\ call.fn = "tsp.solve_tsp"
          /\ call.improve_2opt
          /\ Len(tour_in) > 4
       \/ /\ call.fn = "route_solver.solve_tsp"
          /\ call.method = "two_opt"
          /\ NumPoints >= 2

\* C2: the tour 2-opt returns costs no more than the tour it was given.
C2_TwoOptNoWorse == RanTwoOpt => CallCost(route) <= CallCost(tour_in)

\* C2's case: route_solver._two_opt found a strictly cheaper tour.
C2_Witness ==
    /\ RanTwoOpt
    /\ call.fn = "route_solver._two_opt"
    /\ route # tour_in
    /\ CallCost(route) < CallCost(tour_in)

\* C10: a sequencing call whose strategy selector is not recognised raises an
\* error and returns no tour, for every point set (of one point or more).
C10_UnknownSelectorFails ==
    (tpc = "done" /\ NumPoints >= 1 /\ UnknownSelector)
    => (terr # "none" /\ route = <<>>)

(***************************************************************************)
(* Timeline simulation: pipeline._simulate_timeline                        *)
(***************************************************************************)
\* An optional float argument: <<>> is None, <<v>> is the value v.
NoneF == <<>>
Some(v) == <<v>>

\* The edges read in the other direction: float(dist_mat[b, a]).
segments_transposed(route_points, mat) ==
    [k \in 1..(Len(route_points) - 1) |-> mat[route_points[k + 1]][route_points[k]]]

\* seg = [float(dist_mat[a, b]) for a, b in zip(route_points[:-1], route_points[1:])]
Segments(route_points, mat) ==
    [k \in 1..(Len(route_points) - 1) |-> mat[route_points[k]][route_points[k + 1]]]

\* sum(seg) added left to right, each addition rounded.
RECURSIVE NaiveSum(_, _, _)
NaiveSum(seg, k, acc) ==
    IF k > Len(seg) THEN acc ELSE NaiveSum(seg, k + 1, FAdd(acc, seg[k]))

RECURSIVE ExactSum(_, _)
ExactSum(seg, k) == IF k > Len(seg) THEN 0 ELSE seg[k] + ExactSum(seg, k + 1)

\* float(sum(seg)): the builtin adds left to right; since Python 3.12 it
\* compensates the rounding errors and returns the rounded exact sum.  Both
\* are outcomes an interpreter can produce.
TotalOutcomes(seg) == {NaiveSum(seg, 1, 0), Fl(ExactSum(seg, 1))}

\* times = [t]; for s in seg: t += s; times.append(t)
RECURSIVE Accumulate(_, _, _, _)
Accumulate(seg, k, t, acc) ==
    IF k > Len(seg) THEN acc
    ELSE Accumulate(seg, k + 1, FAdd(t, seg[k]), Append(acc, FAdd(t, seg[k])))

\* The end anchor taking precedence over a start anchor given with it.
ResolveStart_end_first(start_min, end_at, total) ==
    IF end_at # NoneF THEN FSub(end_at[1], total)
    ELSE IF start_min = NoneF THEN 0
    ELSE start_min[1]

\* The start anchor dropped: the timeline starts at 0 unless an end is given.
ResolveStart_ignores_start(start_min, end_at, total) ==
    IF start_min = NoneF /\ end_at # NoneF THEN FSub(end_at[1], total)
    ELSE 0

\* The start time the anchors resolve to.
ResolveStart(start_min, end_at, total) ==
    IF start_min = NoneF /\ end_at # NoneF THEN FSub(end_at[1], total)
    ELSE IF start_min = NoneF THEN 0
    ELSE start_min[1]

\* _simulate_timeline, given the value sum(seg) took.
simulate_timeline(route_points, mat, start_min, end_at, total) ==
    LET seg == Segments(route_points, mat)
        t0 == ResolveStart(start_min, end_at, total)
    IN  Accumulate(seg, 1, t0, <<t0>>)

\* The times a caller can pass: the floats up to MaxAnchor.
Anchors == {x \in 0..MaxAnchor : Fl(x) = x}

\* The tours and mean travel-time matrices of the vehicle groups of up to
\* MaxTlN points.
TimelineInputs ==
    UNION {
        {[route_points |-> r, dist_mat |-> TravelMat(p, skew)] :
            p \in PointSets(n), skew \in {0, 1}, r \in Tours(n)} : n \in 1..MaxTlN}

NoTimelineCall == [route_points |-> <<>>, dist_mat |-> <<>>, start_min |-> NoneF,
                   end_at |-> NoneF]

TimelineInit ==
    /\ \E inp \in TimelineInputs :
         tl_in = [NoTimelineCall EXCEPT !.route_points = inp.route_points,
                                        !.dist_mat = inp.dist_mat]
    /\ times = <<>>
    /\ tl_total = 0
    /\ tl_again = <<>>
    /\ tlpc = "idle"

\* A call _simulate_timeline(route_points, dist_mat, start_min=..., end_at=...).
SimulateTimeline ==
    /\ tlpc = "idle"
    /\ \E start_min \in {NoneF} \cup {Some(a) : a \in Anchors},
          end_at \in {NoneF} \cup {Some(a) : a \in Anchors},
          total \in TotalOutcomes(Segments(tl_in.route_points, tl_in.dist_mat)) :
         /\ tl_in' = [tl_in EXCEPT !.start_min = start_min, !.end_at = end_at]
         /\ tl_total' = total
         /\ times' = simulate_timeline(tl_in.route_points, tl_in.dist_mat,
                                       start_min, end_at, total)
    /\ tlpc' = "done"
    /\ UNCHANGED <<tl_again, tourVars, ptVars, kpiVars, roadVars, tmVars, runVars, legVars, shVars>>

\* The timeline came from a call with an end anchor only.
EndAnchored == tl_in.start_min = NoneF /\ tl_in.end_at # NoneF

\* A second call on the same tour and matrix, with the start anchor times[0]
\* of an end-anchored timeline and no end anchor.
ReAnchor ==
    /\ tlpc = "done"
    /\ EndAnchored
    /\ \E total \in TotalOutcomes(Segments(tl_in.route_points, tl_in.dist_mat)) :
         tl_again' = simulate_timeline(tl_in.route_points, tl_in.dist_mat,
                                       Some(times[1]), NoneF, total)
    /\ tlpc' = "reanchored"
    /\ UNCHANGED <<tl_in, times, tl_total, tourVars, ptVars, kpiVars, roadVars, tmVars, runVars, legVars, shVars>>

TimelineNext == SimulateTimeline \/ ReAnchor

InitTimeline == TimelineInit /\ TourIdle /\ PtIdle /\ KpiIdle /\ RoadIdle /\ TmIdle /\ RunIdle /\ LegIdle /\ SharedIdle
SpecTimeline == InitTimeline /\ [][TimelineNext]_vars

\* C3: called with only an end-time anchor E on a tour whose edge durations
\* sum to T, the first time returned is E - T and the last is E.
C3_EndAnchor ==
    (tlpc = "done" /\ tl_in.start_min = NoneF /\ tl_in.end_at # NoneF)
    => /\ times[1] = FSub(tl_in.end_at[1], tl_total)
       /\ times[Len(times)] = tl_in.end_at[1]

\* C18: for a tour and a matrix of non-negative entries the timeline has one
\* time per tour position, never decreases, and each time is the one before
\* plus the matrix entry of the edge between the two positions.
C18_TimelineShape ==
    tlpc # "idle" /\ tlpc # "off"
    => /\ Len(times) = Len(tl_in.route_points)
       /\ \A k \in 1..(Len(times) - 1) :
             /\ times[k + 1] =
                   FAdd(times[k],
                        tl_in.dist_mat[tl_in.route_points[k]][tl_in.route_points[k + 1]])
             /\ times[k] <= times[k + 1]

\* C18 witness: a timeline over a tour of two pickups whose times strictly
\* grow, on a matrix that differs between the two directions of an edge.
C18_Witness ==
    /\ tlpc = "done"
    /\ Len(times) = 4
    /\ \A k \in 1..3 : times[k] < times[k + 1]
    /\ \E k \in 1..3 :
          tl_in.dist_mat[tl_in.route_points[k]][tl_in.route_points[k + 1]]
              # tl_in.dist_mat[tl_in.route_points[k + 1]][tl_in.route_points[k]]

\* C19: the timeline L of a call with an end anchor is reproduced at every
\* position by the call on the same tour and matrix with the start anchor L[0].
C19_ReAnchorRoundTrip ==
    tlpc = "reanchored" => tl_again = times

\* C19 witness: an end-anchored timeline that starts after 0 and whose last
\* time drifted off the anchor has been re-anchored at its own start.
C19_Witness ==
    /\ tlpc = "reanchored"
    /\ Len(times) >= 3
    /\ times[1] > 0
    /\ times[Len(times)] # tl_in.end_at[1]
    /\ tl_again = times

\* C20: with no anchor the first time is 0; with a start anchor the first
\* time is that anchor, also when an end anchor comes with it.
C20_AnchorResolution ==
    tlpc = "done"
    => /\ (tl_in.start_min = NoneF /\ tl_in.end_at = NoneF) => times[1] = 0
       /\ tl_in.start_min # NoneF => times[1] = tl_in.start_min[1]

\* C20 witness: both anchors were given, the end anchor would have put the
\* start elsewhere, and the timeline starts at the start anchor.
C20_Witness ==
    /\ tlpc = "done"
    /\ tl_in.start_min # NoneF /\ tl_in.end_at # NoneF
    /\ FSub(tl_in.end_at[1], tl_total) # tl_in.start_min[1]
    /\ times[1] = tl_in.start_min[1]
    /\ Len(times) >= 3

(***************************************************************************)
(* Group partitioning: pipeline._split_vehicles_df and                     *)
(* clustering.split_requests_into_buses                                    *)
(***************************************************************************)
\* `if len(vehicles) >= max_veh: break` with one vehicle too many let through.
vehicles_full_late(n_vehicles, max_veh) == n_vehicles > max_veh

\* `if len(vehicles) >= max_veh: break`
vehicles_full(n_vehicles, max_veh) == n_vehicles >= max_veh

\* for i in range(0, len(g), cap): break at the cap, else append g.iloc[i:i+cap].
\* (cap > 0; range() with a negative step from 0 is empty.)
RECURSIVE chunk_loop(_, _, _, _, _)
chunk_loop(g, i, cap, max_veh, acc) ==
    IF i >= Len(g) THEN acc
    ELSE IF vehicles_full(Len(acc), max_veh) THEN acc
    ELSE chunk_loop(g, i + cap, cap, max_veh,
                    Append(acc, Slice(g, i, Min({i + cap, Len(g)}))))

\* pipeline._split_vehicles_df: [vehicles, err]
split_vehicles_df(g, cap, max_veh) ==
    IF cap <= 0 THEN [vehicles |-> <<>>, err |-> "ConfigError"]
    ELSE IF max_veh <= 0 THEN [vehicles |-> <<>>, err |-> "ConfigError"]
    ELSE [vehicles |-> chunk_loop(g, 0, cap, max_veh, <<>>), err |-> "none"]

\* The orders of the rows S of g in non-decreasing distance: a nearest row
\* first, then the others in such an order.
RECURSIVE SortedOrders(_, _)
SortedOrders(g, S) ==
    IF S = {} THEN {<<>>}
    ELSE UNION {{<<g[i]>> \o rest : rest \in SortedOrders(g, S \ {i})} :
                   i \in {j \in S : \A k \in S : g[j].center_dist <= g[k].center_dist}}

\* The rows left in arrival order: the sort skipped.
ArrivalOrder(g) == {g}

\* df.sort_values("center_dist"): the rows in non-decreasing distance.  The
\* default sort kind is not stable, so rows at equal distance come in any order.
SortedByCenterDist(g) == SortedOrders(g, 1..Len(g))

\* clustering.split_requests_into_buses, df being g after the optional sort:
\* [vehicles, err].  range(0, len(df), 0) raises ValueError; a negative cap
\* gives an empty range.
split_requests_into_buses(g, df, cap, max_bus) ==
    IF Len(g) = 0 THEN [vehicles |-> <<>>, err |-> "none"]
    ELSE IF cap = 0 THEN [vehicles |-> <<>>, err |-> "ValueError"]
    ELSE IF cap < 0 THEN [vehicles |-> <<>>, err |-> "none"]
    ELSE [vehicles |-> chunk_loop(df, 0, cap, max_bus, <<>>), err |-> "none"]

\* The requests of a group in arrival order, each with its distance to the
\* center (1 or 2 km).
RequestLists ==
    UNION {
        {[k \in 1..n |-> [req_id |-> k, center_dist |-> d[k]]] : d \in [1..n -> {1, 2}]} :
            n \in 0..MaxReq}

PartitionInit ==
    /\ \E g \in RequestLists, cap \in (-1)..MaxCap, max_veh \in (-1)..MaxVeh :
         pt_in = [g |-> g, cap |-> cap, max_veh |-> max_veh, fn |-> "none",
                  strategy |-> ""]
    /\ vehicles = <<>>
    /\ perr = "none"
    /\ ptpc = "idle"

\* run's default path: _split_vehicles_df(g, cap=cap, max_veh=max_veh).
CallSplitVehiclesDf ==
    /\ ptpc = "idle"
    /\ LET res == split_vehicles_df(pt_in.g, pt_in.cap, pt_in.max_veh) IN
         /\ vehicles' = res.vehicles
         /\ perr' = res.err
    /\ pt_in' = [pt_in EXCEPT !.fn = "_split_vehicles_df", !.strategy = "chunk"]
    /\ ptpc' = "done"
    /\ UNCHANGED <<tourVars, tlVars, kpiVars, roadVars, tmVars, runVars, legVars, shVars>>

\* run's cluster_first path: split_requests_into_buses(g, ..., strategy=...).
CallSplitIntoBuses ==
    /\ ptpc = "idle"
    /\ \E strategy \in {"chunk", "center_dist"} :
         \E df \in (IF strategy = "center_dist" THEN SortedByCenterDist(pt_in.g)
                    ELSE {pt_in.g}) :
           LET res == split_requests_into_buses(pt_in.g, df, pt_in.cap, pt_in.max_veh) IN
           /\ vehicles' = res.vehicles
           /\ perr' = res.err
           /\ pt_in' = [pt_in EXCEPT !.fn = "split_requests_into_buses",
                                     !.strategy = strategy]
    /\ ptpc' = "done"
    /\ UNCHANGED <<tourVars, tlVars, kpiVars, roadVars, tmVars, runVars, legVars, shVars>>

PartitionNext == CallSplitVehiclesDf \/ CallSplitIntoBuses

InitPartition == PartitionInit /\ TourIdle /\ TlIdle /\ KpiIdle /\ RoadIdle /\ TmIdle /\ RunIdle /\ LegIdle /\ SharedIdle
SpecPartition == InitPartition /\ [][PartitionNext]_vars

\* ceil(a / b) for b > 0.
CeilDiv(a, b) == (a + b - 1) \div b

\* C4: for N requests, cap > 0 and max_veh > 0, the chunk partitioner returns
\* min(ceil(N / cap), max_veh) groups; group k holds the requests at arrival
\* positions k*cap .. min((k+1)*cap, N) - 1 in arrival order; no request at
\* position >= cap * max_veh is in any group.
C4_ChunkPartition ==
    (/\ ptpc = "done"
     /\ pt_in.strategy = "chunk"
     /\ pt_in.cap > 0
     /\ pt_in.max_veh > 0)
    => LET N == Len(pt_in.g)
           cap == pt_in.cap
       IN  /\ perr = "none"
           /\ Len(vehicles) = Min({CeilDiv(N, cap), pt_in.max_veh})
           /\ \A k \in 0..(Len(vehicles) - 1) :
                vehicles[k + 1] =
                    [x \in 1..(Min({(k + 1) * cap, N}) - k * cap) |-> pt_in.g[k * cap + x]]
           /\ \A pos \in 0..(N - 1) :
                pos >= cap * pt_in.max_veh =>
                    \A v \in 1..Len(vehicles) : \A x \in 1..Len(vehicles[v]) :
                        vehicles[v][x] # pt_in.g[pos + 1]

\* C4's case: five requests, capacity 2, two vehicles at most: two groups of
\* two, the fifth request dropped.
C4_Witness ==
    /\ ptpc = "done"
    /\ pt_in.fn = "_split_vehicles_df"
    /\ Len(pt_in.g) = 5 /\ pt_in.cap = 2 /\ pt_in.max_veh = 2
    /\ Len(vehicles) = 2
    /\ Len(vehicles[1]) = 2 /\ Len(vehicles[2]) = 2
    /\ \A v \in 1..2 : \A x \in 1..2 : vehicles[v][x] # pt_in.g[5]

\* C5: the partitioner fails with a ConfigError and returns no group whenever
\* capacity <= 0 or the vehicle cap <= 0, under both policies.
C5_NonPositiveFails ==
    (ptpc = "done" /\ (pt_in.cap <= 0 \/ pt_in.max_veh <= 0))
    => (perr = "ConfigError" /\ vehicles = <<>>)

(***************************************************************************)
(* KPI aggregation: metrics.compute_kpis                                   *)
(* The statistics are fractions [num, den]; the inputs are small integers, *)
(* on which the float arithmetic of numpy is exact up to the final         *)
(* division.                                                               *)
(***************************************************************************)
Frac(num, den) == [num |-> num, den |-> den]
FracEq(a, b) == a.num * b.den = b.num * a.den

RECURSIVE SeqSum(_, _)
SeqSum(x, k) == IF k > Len(x) THEN 0 ELSE x[k] + SeqSum(x, k + 1)

\* The k-th smallest element of x, k from 0 (sorted(x)[k]).
KthSmallest(x, k) ==
    CHOOSE v \in {x[i] : i \in 1..Len(x)} :
        /\ Cardinality({i \in 1..Len(x) : x[i] < v}) <= k
        /\ Cardinality({i \in 1..Len(x) : x[i] <= v}) > k

\* np.percentile(x, 95), linear interpolation between the order statistics
\* around position 0.95 * (n - 1).
Percentile95(x) ==
    LET n == Len(x)
        lo == (19 * (n - 1)) \div 20
        rem == (19 * (n - 1)) % 20
        a == KthSmallest(x, lo)
        b == IF rem = 0 THEN a ELSE KthSmallest(x, lo + 1)
    IN  Frac(20 * a + rem * (b - a), 20)

\* metrics._summ
summ(x) ==
    IF Len(x) = 0
    THEN [mean |-> Frac(0, 1), p95 |-> Frac(0, 1), max |-> Frac(0, 1)]
    ELSE [mean |-> Frac(SeqSum(x, 1), Len(x)),
          p95 |-> Percentile95(x),
          max |-> Frac(Max({x[i] : i \in 1..Len(x)}), 1)]

\* The columns compute_kpis requires.
required ==
    <<"pickup_promise_min", "pickup_actual_min", "center_promise_min",
      "center_actual_min", "ride_time_min">>

\* `lateness < thr`: the threshold itself counted late.
on_time_strict(late, thr) == late < thr

\* `lateness <= thr`
on_time(late, thr) == late <= thr

\* The rate as a percentage: 100 * np.mean(late <= thr).
on_time_rate_percent(late, thr) ==
    Frac(100 * Cardinality({i \in 1..Len(late) : on_time(late[i], thr)}), Len(late))

\* float(np.mean(late <= thr))
on_time_rate(late, thr) ==
    Frac(Cardinality({i \in 1..Len(late) : on_time(late[i], thr)}), Len(late))

\* The summary of an empty event set.
empty_summary ==
    [pickup_late_mean |-> Frac(0, 1), pickup_late_p95 |-> Frac(0, 1),
     pickup_late_max |-> Frac(0, 1),
     center_late_mean |-> Frac(0, 1), center_late_p95 |-> Frac(0, 1),
     center_late_max |-> Frac(0, 1),
     pickup_on_time_rate |-> Frac(1, 1), center_on_time_rate |-> Frac(1, 1),
     ride_time_mean |-> Frac(0, 1), ride_time_p95 |-> Frac(0, 1),
     ride_time_max |-> Frac(0, 1)]

\* `events_df is None or len(events_df) == 0`
no_events(df) == df.is_none \/ Len(df.rows) = 0

\* `not isinstance(kpi_cfg, dict) or "on_time_threshold_min" not in kpi_cfg`
threshold_missing(c) == c.kpi # "dict" \/ ~c.has_thr

\* missing = [c for c in required if c not in events_df.columns]
missing_columns(df) == {required[k] : k \in 1..Len(required)} \ df.columns

\* The summary of a non-empty event table that has every required column.
summary_of(df, thr) ==
    LET rows == df.rows
        pickup_late == [i \in 1..Len(rows) |->
                           rows[i].pickup_actual_min - rows[i].pickup_promise_min]
        center_late == [i \in 1..Len(rows) |->
                           rows[i].center_actual_min - rows[i].center_promise_min]
        ride_time == [i \in 1..Len(rows) |-> rows[i].ride_time_min]
    IN  [pickup_late_mean |-> summ(pickup_late).mean,
         pickup_late_p95 |-> summ(pickup_late).p95,
         pickup_late_max |-> summ(pickup_late).max,
         center_late_mean |-> summ(center_late).mean,
         center_late_p95 |-> summ(center_late).p95,
         center_late_max |-> summ(center_late).max,
         pickup_on_time_rate |-> on_time_rate(pickup_late, thr),
         center_on_time_rate |-> on_time_rate(center_late, thr),
         ride_time_mean |-> summ(ride_time).mean,
         ride_time_p95 |-> summ(ride_time).p95,
         ride_time_max |-> summ(ride_time).max]

\* The configuration read before the events are looked at.
compute_kpis_config_first(df, c) ==
    IF threshold_missing(c) THEN [kpis |-> <<>>, err |-> "ConfigError"]
    ELSE IF no_events(df) THEN [kpis |-> <<empty_summary>>, err |-> "none"]
    ELSE IF missing_columns(df) # {} THEN [kpis |-> <<>>, err |-> "ConfigError"]
    ELSE [kpis |-> <<summary_of(df, c.thr)>>, err |-> "none"]

\* The column validation left out: indexing the table raises KeyError.
compute_kpis_no_column_check(df, c) ==
    IF no_events(df) THEN [kpis |-> <<empty_summary>>, err |-> "none"]
    ELSE IF threshold_missing(c) THEN [kpis |-> <<>>, err |-> "ConfigError"]
    ELSE IF missing_columns(df) # {} THEN [kpis |-> <<>>, err |-> "KeyError"]
    ELSE [kpis |-> <<summary_of(df, c.thr)>>, err |-> "none"]

\* metrics.compute_kpis: [kpis, err]
compute_kpis(df, c) ==
    IF no_events(df) THEN [kpis |-> <<empty_summary>>, err |-> "none"]
    ELSE IF threshold_missing(c) THEN [kpis |-> <<>>, err |-> "ConfigError"]
    ELSE IF missing_columns(df) # {} THEN [kpis |-> <<>>, err |-> "ConfigError"]
    ELSE [kpis |-> <<summary_of(df, c.thr)>>, err |-> "none"]

\* The events of a run: pickups and arrivals promised for minute 1, made at
\* minutes 0..MaxT (early, on time or late), the ride lasting from the pickup
\* to the arrival.
EventRows ==
    {[pickup_promise_min |-> 1, pickup_actual_min |-> p[1],
      center_promise_min |-> 1, center_actual_min |-> p[2],
      ride_time_min |-> p[2] - p[1]] :
        p \in {pc \in (0..MaxT) \X (0..MaxT) : pc[1] <= pc[2]}}

\* A row without the column col.
DropColumn(row, col) == [c \in DOMAIN row \ {col} |-> row[c]]

\* The event tables of n rows: None and pd.DataFrame() for n = 0, else tables
\* having all the required columns or all but one.
EventTables(n) ==
    IF n = 0
    THEN {[is_none |-> TRUE, columns |-> {}, rows |-> <<>>],
          [is_none |-> FALSE, columns |-> {}, rows |-> <<>>]}
    ELSE {[is_none |-> FALSE, columns |-> DOMAIN rows[1], rows |-> rows] :
              rows \in [1..n -> EventRows]}
         \cup {[is_none |-> FALSE, columns |-> DOMAIN rows[1] \ {required[k]},
                rows |-> [i \in 1..n |-> DropColumn(rows[i], required[k])]] :
                   rows \in [1..n -> EventRows], k \in 1..Len(required)}

\* The configurations: no "kpi" entry, a "kpi" entry that is no dict, a dict
\* without the threshold, a dict with it.
Configs ==
    {[kpi |-> "absent", has_thr |-> FALSE, thr |-> 0],
     [kpi |-> "not_dict", has_thr |-> FALSE, thr |-> 0],
     [kpi |-> "dict", has_thr |-> FALSE, thr |-> 0]}
    \cup {[kpi |-> "dict", has_thr |-> TRUE, thr |-> t] : t \in 0..MaxThr}

KpiInit ==
    /\ \E n \in 0..MaxEvents : events_df \in EventTables(n)
    /\ cfg \in Configs
    /\ kpis = <<>>
    /\ kerr = "none"
    /\ kpc = "idle"

\* A call compute_kpis(events_df, cfg).
ComputeKpis ==
    /\ kpc = "idle"
    /\ LET res == compute_kpis(events_df, cfg) IN
         /\ kpis' = res.kpis
         /\ kerr' = res.err
    /\ kpc' = "done"
    /\ UNCHANGED <<events_df, cfg, tourVars, tlVars, ptVars, roadVars, tmVars, runVars, legVars, shVars>>

KpiNext == ComputeKpis

InitKpi == KpiInit /\ TourIdle /\ TlIdle /\ PtIdle /\ RoadIdle /\ TmIdle /\ RunIdle /\ LegIdle /\ SharedIdle
SpecKpi == InitKpi /\ [][KpiNext]_vars

\* The names of the lateness and ride-time statistics.
StatNames ==
    {"pickup_late_mean", "pickup_late_p95", "pickup_late_max",
     "center_late_mean", "center_late_p95", "center_late_max",
     "ride_time_mean", "ride_time_p95", "ride_time_max"}

\* C6: on an empty or absent event set compute_kpis returns a summary whose two
\* on-time rates are 1.0 and whose lateness and ride-time statistics are all
\* 0.0, whatever the configuration holds.
C6_EmptyEvents ==
    (kpc = "done" /\ no_events(events_df))
    => /\ kerr = "none"
       /\ Len(kpis) = 1
       /\ FracEq(kpis[1].pickup_on_time_rate, Frac(1, 1))
       /\ FracEq(kpis[1].center_on_time_rate, Frac(1, 1))
       /\ \A f \in StatNames : FracEq(kpis[1][f], Frac(0, 1))

\* C6's case: an empty table and a configuration with no threshold.
C6_Witness ==
    /\ kpc = "done"
    /\ ~events_df.is_none /\ Len(events_df.rows) = 0
    /\ cfg.kpi = "absent"
    /\ Len(kpis) = 1

\* The number of rows whose (actual - promised) is at most thr.
NumOnTime(actual, promised) ==
    Cardinality({i \in 1..Len(events_df.rows) :
        events_df.rows[i][actual] - events_df.rows[i][promised] <= cfg.thr})

\* compute_kpis computed the statistics of a non-empty table.
Computed ==
    /\ kpc = "done"
    /\ ~no_events(events_df)
    /\ ~threshold_missing(cfg)
    /\ missing_columns(events_df) = {}

\* C7: for a non-empty event set each on-time rate is the number of events
\* whose lateness is <= the threshold, over the number of events; a lateness
\* equal to the threshold counts as on time.
C7_OnTimeRate ==
    Computed
    => /\ kerr = "none"
       /\ Len(kpis) = 1
       /\ FracEq(kpis[1].pickup_on_time_rate,
                 Frac(NumOnTime("pickup_actual_min", "pickup_promise_min"),
                      Len(events_df.rows)))
       /\ FracEq(kpis[1].center_on_time_rate,
                 Frac(NumOnTime("center_actual_min", "center_promise_min"),
                      Len(events_df.rows)))

\* C7's case: one event whose pickup lateness is exactly the threshold, and an
\* on-time rate of 1.
C7_Witness ==
    /\ Computed
    /\ Len(events_df.rows) = 1
    /\ events_df.rows[1].pickup_actual_min - events_df.rows[1].pickup_promise_min = cfg.thr
    /\ cfg.thr > 0
    /\ FracEq(kpis[1].pickup_on_time_rate, Frac(1, 1))

\* C8: for a non-empty event set compute_kpis raises ConfigError and returns no
\* summary when the threshold is missing from the configuration and when any
\* required column is absent.
C8_MissingInputFails ==
    (/\ kpc = "done"
     /\ ~no_events(events_df)
     /\ (threshold_missing(cfg) \/ missing_columns(events_df) # {}))
    => (kerr = "ConfigError" /\ kpis = <<>>)

\* C8's case: the threshold is configured and a required column is absent.
C8_Witness ==
    /\ kpc = "done"
    /\ ~no_events(events_df)
    /\ ~threshold_missing(cfg)
    /\ "ride_time_min" \notin events_df.columns
    /\ kerr = "ConfigError"

\* The two on-time rates of a summary.
RateNames == {"pickup_on_time_rate", "center_on_time_rate"}

\* C17: every pickup_on_time_rate and center_on_time_rate compute_kpis
\* returns lies in [0, 1], for an empty event set and for a non-empty one.
C17_RatesInUnitInterval ==
    (kpc = "done" /\ kpis # <<>>)
    => \A name \in RateNames :
          /\ kpis[1][name].den > 0
          /\ 0 <= kpis[1][name].num
          /\ kpis[1][name].num <= kpis[1][name].den

\* C17 witness: a summary of two events, one picked up on time and one
\* late, both late at the center: a rate strictly inside the interval and a
\* rate at its lower end.
C17_Witness ==
    /\ kpc = "done" /\ kpis # <<>> /\ Len(events_df.rows) = 2
    /\ 0 < kpis[1].pickup_on_time_rate.num
    /\ kpis[1].pickup_on_time_rate.num < kpis[1].pickup_on_time_rate.den
    /\ kpis[1].center_on_time_rate.num = 0

(***************************************************************************)
(* Road-graph travel times: time_model.RoadTimeModel                       *)
(* Nodes are 1..RoadNodes in the graph's node order, node i lying i km     *)
(* along a line; a graph is [nodes, w], w[u][v] the travel_time_sec of the *)
(* edge u -> v and 0 where there is none.  Durations are kept in seconds   *)
(* (sixtieths of the minutes the code returns).                            *)
(***************************************************************************)
\* road_cfg.get("fallback_speed_kph", 25.0)
FallbackSpeedKph == 25
\* The least size of a strongly connected component that is kept.
MinStrongSize == 1000

\* A graph is [nodes, w, mult]: w[u][v] > 0 is the travel time of the edge
\* u -> v, and mult[u] is the number of nodes that u stands for, a set of
\* nodes each reachable from every other; a node of a loaded graph stands
\* for itself.  len(c), the number of nodes of a set c of them:
RECURSIVE Size(_, _)
Size(g, c) ==
    IF c = {} THEN 0
    ELSE LET u == CHOOSE x \in c : TRUE
         IN  g.mult[u] + Size(g, c \ {u})

\* G.number_of_nodes()
number_of_nodes(g) == Size(g, g.nodes)

\* The nodes reachable from u along edges (u itself included).
RECURSIVE ReachFrom(_, _, _)
ReachFrom(g, seen, k) ==
    IF k = 0 THEN seen
    ELSE ReachFrom(g, seen \cup {v \in g.nodes : \E u \in seen : g.w[u][v] > 0}, k - 1)

Descendants(g, u) == ReachFrom(g, {u}, Cardinality(g.nodes))

\* nx.strongly_connected_components
strongly_connected_components(g) ==
    {{v \in g.nodes : v \in Descendants(g, u) /\ u \in Descendants(g, v)} : u \in g.nodes}

\* The graph with every edge in both directions.
BothWays(g) ==
    [nodes |-> g.nodes,
     w |-> [u \in g.nodes |-> [v \in g.nodes |-> Max({g.w[u][v], g.w[v][u]})]],
     mult |-> g.mult]

\* nx.weakly_connected_components
weakly_connected_components(g) ==
    {Descendants(BothWays(g), u) : u \in g.nodes}

\* comps.sort(key=len, reverse=True); comps[0]: the sort is stable and the
\* components come in the order of their first node, so the largest component
\* holding the earliest node is kept.
Largest(g, comps) ==
    CHOOSE c \in comps :
        /\ \A d \in comps : Size(g, d) <= Size(g, c)
        /\ \A d \in comps :
               (Size(g, d) = Size(g, c)) => Min(c) <= Min(d)

\* G.subgraph(keep).copy()
subgraph(g, keep) ==
    [nodes |-> keep, w |-> [u \in keep |-> [v \in keep |-> g.w[u][v]]],
     mult |-> [u \in keep |-> g.mult[u]]]

\* int(0.05 * G.number_of_nodes())
FivePercent(n) == (5 * n) \div 100

\* `len(keep) >= max(1000, int(0.05 * G.number_of_nodes()))`
strong_enough(len_keep, n) == len_keep >= Max({MinStrongSize, FivePercent(n)})

\* The graph left as loaded: no component singled out.
keep_every_node(g) == g

\* RoadTimeModel._keep_largest_connected_component
keep_largest_connected_component(g) ==
    LET strong == strongly_connected_components(g)
        weak == weakly_connected_components(g)
    IN  IF /\ strong # {}
           /\ strong_enough(Size(g, Largest(g, strong)), number_of_nodes(g))
        THEN subgraph(g, Largest(g, strong))
        ELSE subgraph(g, IF weak # {} THEN Largest(g, weak) ELSE g.nodes)

\* nx.Graph(G): each edge {u, v} once; where both directions exist the
\* attributes of the edge leaving the later node are written last.
mirror(g) ==
    [nodes |-> g.nodes,
     w |-> [u \in g.nodes |-> [v \in g.nodes |->
              LET lo == Min({u, v})
                  hi == Max({u, v})
              IN  IF g.w[hi][lo] > 0 THEN g.w[hi][lo] ELSE g.w[lo][hi]]],
     mult |-> g.mult]

\* The lengths of the walks from u to v of at most k edges.
RECURSIVE WalkLengths(_, _, _, _)
WalkLengths(g, u, v, k) ==
    (IF u = v THEN {0} ELSE {})
    \cup (IF k = 0 THEN {}
          ELSE UNION {{g.w[u][x] + l : l \in WalkLengths(g, x, v, k - 1)} :
                          x \in {y \in g.nodes : g.w[u][y] > 0}})

\* nx.shortest_path_length(g, u, v, weight="travel_time_sec"): <<seconds>>, or
\* NoneF where networkx raises NetworkXNoPath.
shortest_path_length(g, u, v) ==
    LET ls == WalkLengths(g, u, v, Cardinality(g.nodes) - 1)
    IN  IF ls = {} THEN NoneF ELSE Some(Min(ls))

\* _od_time_min without the undirected retry: the directed failure escapes.
od_time_min_directed_only(g, gu, u, v) ==
    LET directed == shortest_path_length(g, u, v)
    IN  IF directed # NoneF THEN [t |-> directed, err |-> "none"]
        ELSE [t |-> NoneF, err |-> "NetworkXNoPath"]

\* RoadTimeModel._od_time_min (uncached body): [t, err], t = NoneF for nan.
od_time_min(g, gu, u, v) ==
    LET directed == shortest_path_length(g, u, v)
        undirected == shortest_path_length(gu, u, v)
    IN  IF directed # NoneF THEN [t |-> directed, err |-> "none"]
        ELSE IF undirected # NoneF THEN [t |-> undirected, err |-> "none"]
        ELSE [t |-> NoneF, err |-> "none"]

\* ox.distance.nearest_nodes: the retained nodes nearest to coordinate a.
nearest_nodes(g, a) ==
    {u \in g.nodes : \A v \in g.nodes : Abs(u - a) <= Abs(v - a)}

\* The straight-line estimate in seconds: km * detour_factor (1.0) over
\* max(1.0, fallback_speed_kph * speed_multiplier (1.0)), times 60 minutes.
geometric_fallback(a, b) == (Abs(a - b) * 3600) \div Max({1, FallbackSpeedKph})

\* `if u == v: return 0.1`, in seconds.
SameNodeSec == 6

\* RoadTimeModel.mean_travel_min once both ends are resolved: [t, err].
mean_travel_min(g, gu, cache, a, b, u, v) ==
    IF u = v THEN [t |-> SameNodeSec, err |-> "none"]
    ELSE LET od == IF <<u, v>> \in DOMAIN cache
                   THEN [t |-> cache[<<u, v>>], err |-> "none"]
                   ELSE od_time_min(g, gu, u, v)
         IN  IF od.err # "none" THEN [t |-> 0, err |-> od.err]
             ELSE IF od.t # NoneF THEN [t |-> od.t[1], err |-> "none"]
             ELSE [t |-> geometric_fallback(a, b), err |-> "none"]

\* The edges a loaded graph may have: the ring 1 - 2 - ... - RoadNodes - 1.
RingEdge(u, v) == u # v /\ (v = (u % RoadNodes) + 1 \/ u = (v % RoadNodes) + 1)

RingEdges == {e \in (1..RoadNodes) \X (1..RoadNodes) : RingEdge(e[1], e[2])}

\* An edge is absent, short (1 s) or long (MaxW s).
LoadedGraphs ==
    {[nodes |-> 1..RoadNodes,
      w |-> [u \in 1..RoadNodes |-> [v \in 1..RoadNodes |->
               IF <<u, v>> \in RingEdges THEN x[<<u, v>>] ELSE 0]],
      mult |-> [u \in 1..RoadNodes |-> 1]] :
        x \in [RingEdges -> {0, 1, MaxW}]}

NoQuery == [a |-> 0, b |-> 0, u |-> 0, v |-> 0, t |-> 0, err |-> "none"]

\* The state of __init__ after ox.load_graphml and _ensure_travel_time.
RoadInit ==
    /\ G \in LoadedGraphs
    /\ G_u = None
    /\ nn_cache = <<>>
    /\ od_cache = <<>>
    /\ q = NoQuery
    /\ rpc = "raw"

\* The rest of __init__: keep the largest component, build the mirror.
KeepAndMirror ==
    /\ rpc = "raw"
    /\ G' = keep_largest_connected_component(G)
    /\ G_u' = mirror(keep_largest_connected_component(G))
    /\ rpc' = "ready"
    /\ UNCHANGED <<nn_cache, od_cache, q, tourVars, tlVars, ptVars, kpiVars, tmVars, runVars, legVars, shVars>>

\* _node through its cache: the nodes a coordinate may resolve to.
node(cache, g, a) ==
    IF a \in DOMAIN cache THEN {cache[a]} ELSE nearest_nodes(g, a)

\* A call mean_travel_min(a, b) with the two points a km and b km along the line.
MeanTravelMin(a, b) ==
    /\ rpc = "ready"
    /\ \E u \in node(nn_cache, G, a) :
       \E v \in node((a :> u) @@ nn_cache, G, b) :
         LET res == mean_travel_min(G, G_u, od_cache, a, b, u, v) IN
           /\ q' = [a |-> a, b |-> b, u |-> u, v |-> v, t |-> res.t, err |-> res.err]
           /\ nn_cache' = (b :> v) @@ (a :> u) @@ nn_cache
           /\ od_cache' =
                IF u = v \/ res.err # "none" \/ <<u, v>> \in DOMAIN od_cache
                THEN od_cache
                ELSE (<<u, v>> :> od_time_min(G, G_u, u, v).t) @@ od_cache
    /\ rpc' = "answered"
    /\ UNCHANGED <<G, G_u, tourVars, tlVars, ptVars, kpiVars, tmVars, runVars, legVars, shVars>>

RoadNext ==
    \/ KeepAndMirror
    \/ \E a, b \in 1..RoadNodes : MeanTravelMin(a, b)

InitRoad == RoadInit /\ TourIdle /\ TlIdle /\ PtIdle /\ KpiIdle /\ TmIdle /\ RunIdle /\ LegIdle /\ SharedIdle
SpecRoad == InitRoad /\ [][RoadNext]_vars

\* A query was answered for two distinct nodes.
AnsweredPair == rpc = "answered" /\ q.u # q.v

\* C9: mean_travel_min answers with the directed shortest path; where there is
\* none, with the shortest path of the undirected mirror; where that fails too,
\* with the straight-line estimate at the fallback speed; and no missing path
\* reaches the caller as an error.
C9_FallbackChain ==
    AnsweredPair
    => /\ q.err = "none"
       /\ q.t = IF shortest_path_length(G, q.u, q.v) # NoneF
                THEN shortest_path_length(G, q.u, q.v)[1]
                ELSE IF shortest_path_length(G_u, q.u, q.v) # NoneF
                THEN shortest_path_length(G_u, q.u, q.v)[1]
                ELSE geometric_fallback(q.a, q.b)

\* C9's case: no directed path, a path in the mirror, and its duration (which
\* differs from the straight-line estimate) returned.
C9_Witness ==
    /\ AnsweredPair
    /\ shortest_path_length(G, q.u, q.v) = NoneF
    /\ shortest_path_length(G_u, q.u, q.v) # NoneF
    /\ q.t = shortest_path_length(G_u, q.u, q.v)[1]
    /\ q.t # geometric_fallback(q.a, q.b)
    /\ q.err = "none"

(***************************************************************************)
(* Travel-time model factory and geometric model: time_model.              *)
(* build_time_model and EuclidTimeModel.  Coordinates are km along a line, *)
(* so that the great-circle distance of a and b is |a - b| km; durations   *)
(* are minutes.  The generator seeded in __post_init__ is its seed's fixed *)
(* stream of lognormal factors, held in halves (1 is 0.5, 3 is 1.5) and    *)
(* repeating after MaxDraws draws; its state is the number of draws made.  *)
(***************************************************************************)
\* str.lower() on the kinds the model configures.
Lower(str) ==
    CASE str = "Road" -> "road"
      [] str = "EUCLID" -> "euclid"
      [] OTHER -> str

\* str(tm.get("kind", "euclid")).lower()
kind_of(c) == IF c.kind = "absent" THEN "euclid" ELSE Lower(c.kind)

NoModel ==
    [class |-> "none", default_speed_kmh |-> 0, speed_multiplier |-> 0,
     detour_factor |-> 0, noise_sigma |-> 0, rng |-> 0]

\* time_model.build_time_model: [model, err].  RoadTimeModel.__init__ raises
\* RuntimeError where osmnx or networkx cannot be imported; every kind other
\* than "road" takes the default branch.
build_time_model(c) ==
    IF kind_of(c) = "road"
    THEN IF c.osmnx
         THEN [model |-> [NoModel EXCEPT !.class = "RoadTimeModel",
                                          !.speed_multiplier = 1],
               err |-> "none"]
         ELSE [model |-> NoModel, err |-> "RuntimeError"]
    ELSE [model |-> [class |-> "EuclidTimeModel",
                     default_speed_kmh |-> c.default_speed_kmh,
                     speed_multiplier |-> 1,
                     detour_factor |-> 1,
                     noise_sigma |-> c.noise_sigma,
                     rng |-> 0],
          err |-> "none"]

\* haversine_km on the line.
haversine_km(a, b) == Abs(a - b)

\* EuclidTimeModel.mean_travel_min.  The configured speeds are positive, so
\* the floor max(1e-6, .) leaves them as they are, and they divide 60.
euclid_mean_travel_min(m, a, b) ==
    Fl((haversine_km(a, b) * m.detour_factor * 60)
         \div (m.default_speed_kmh * m.speed_multiplier))

\* self.rng.lognormal(...): the factor (in halves) the generator yields in
\* state k.
lognormal(factors, k) == factors[(k % Len(factors)) + 1]

\* float(mu * noise) for a factor of h halves: the product rounded to the
\* nearest value of the format, ties to even.
FMulHalves(mu, h) ==
    LET x == mu * h
        qt == x \div 2
    IN  Fl(IF x % 2 = 0 THEN qt ELSE IF qt % 2 = 0 THEN qt ELSE qt + 1)

\* `if self.noise_sigma < 0`: a sigma of 0 draws from the generator.
noise_off_strict(sigma) == sigma < 0

\* `if self.noise_sigma <= 0`
noise_off(sigma) == sigma <= 0

\* EuclidTimeModel.sample_travel_min: [t, rng], the value returned and the
\* generator's state after the call.  factors is the generator's stream.
euclid_sample_travel_min(m, factors, a, b) ==
    LET mu == euclid_mean_travel_min(m, a, b)
    IN  IF noise_off(m.noise_sigma) THEN [t |-> mu, rng |-> m.rng]
        ELSE [t |-> FMulHalves(mu, lognormal(factors, m.rng)), rng |-> m.rng + 1]

\* The values of time_model.kind a configuration may hold.
Kinds == {"absent", "euclid", "road", "Road", "EUCLID", "osrm"}

\* The configurations: kind, base speed (km/h), noise sigma (quarters), and
\* whether osmnx can be imported.
TmConfigs ==
    [kind : Kinds, default_speed_kmh : {30, 60}, noise_sigma : {-1, 0, 1},
     osmnx : BOOLEAN]

\* The streams a seed may stand for: factors 0.5 and 1.5.
Streams == [1..MaxDraws -> {1, 3}]

NoTmQuery == [fn |-> "none", a |-> 0, b |-> 0, t |-> 0, rng_before |-> 0]

TmInit ==
    /\ tm_cfg \in TmConfigs
    /\ tm = NoModel
    /\ tm_err = "none"
    /\ stream \in Streams
    /\ tm_q = NoTmQuery
    /\ tmpc = "cfg"

\* A call build_time_model(cfg).
BuildTimeModel ==
    /\ tmpc = "cfg"
    /\ LET res == build_time_model(tm_cfg) IN
         /\ tm' = res.model
         /\ tm_err' = res.err
         /\ tmpc' = IF res.err = "none" THEN "built" ELSE "failed"
    /\ UNCHANGED <<tm_cfg, stream, tm_q, tourVars, tlVars, ptVars, kpiVars, roadVars, runVars, legVars, shVars>>

\* A call tm.mean_travel_min(a, b) on the geometric model.
EuclidMeanTravelMin(a, b) ==
    /\ tmpc = "built"
    /\ tm.class = "EuclidTimeModel"
    /\ tm_q' = [fn |-> "mean", a |-> a, b |-> b,
                t |-> euclid_mean_travel_min(tm, a, b), rng_before |-> tm.rng]
    /\ UNCHANGED <<tm_cfg, tm, tm_err, stream, tmpc, tourVars, tlVars, ptVars, kpiVars, roadVars, runVars, legVars, shVars>>

\* A call tm.sample_travel_min(a, b) on the geometric model.
EuclidSampleTravelMin(a, b) ==
    /\ tmpc = "built"
    /\ tm.class = "EuclidTimeModel"
    /\ noise_off(tm.noise_sigma) \/ tm.rng < MaxDraws
    /\ LET res == euclid_sample_travel_min(tm, stream, a, b) IN
         /\ tm_q' = [fn |-> "sample", a |-> a, b |-> b, t |-> res.t,
                     rng_before |-> tm.rng]
         /\ tm' = [tm EXCEPT !.rng = res.rng]
    /\ UNCHANGED <<tm_cfg, tm_err, stream, tmpc, tourVars, tlVars, ptVars, kpiVars, roadVars, runVars, legVars, shVars>>

TmNext ==
    \/ BuildTimeModel
    \/ \E a, b \in 0..MaxKm : EuclidMeanTravelMin(a, b)
    \/ \E a, b \in 0..MaxKm : EuclidSampleTravelMin(a, b)

InitTm == TmInit /\ TourIdle /\ TlIdle /\ PtIdle /\ KpiIdle /\ RoadIdle /\ RunIdle /\ LegIdle /\ SharedIdle
SpecTm == InitTm /\ [][TmNext]_vars

\* C11: build_time_model given a kind that is neither "euclid" nor "road"
\* fails with an error and constructs no model.
C11_UnknownKindFails ==
    (tmpc # "cfg" /\ tm_cfg.kind # "absent" /\ kind_of(tm_cfg) \notin {"euclid", "road"})
    => (tm_err # "none" /\ tm.class = "none")

\* C16: on a geometric model whose noise sigma is 0 or negative,
\* sample_travel_min returns exactly what mean_travel_min returns for the
\* same pair and leaves the generator's state as it was.
C16_NoNoiseIsMean ==
    (tm_q.fn = "sample" /\ tm.noise_sigma <= 0)
    => /\ tm_q.t = euclid_mean_travel_min(tm, tm_q.a, tm_q.b)
       /\ tm.rng = tm_q.rng_before

\* C16 witness: a sample between two different places on a model with
\* sigma exactly 0 has returned a positive time.
C16_Witness ==
    /\ tm_q.fn = "sample" /\ tm.noise_sigma = 0
    /\ tm_q.a # tm_q.b /\ tm_q.t > 0

(***************************************************************************)
(* The simulation loop: pipeline.run.  Each (center, slot, class) group    *)
(* holds one vehicle of one or two pickups; the center lies at km 0.  The  *)
(* groups are processed in the order of their keys, which any assignment   *)
(* of keys to groups can make any order.                                   *)
(***************************************************************************)
\* pipeline._hhmm_to_min on a well-formed "HH:MM", held as <<HH, MM>>.
hhmm_to_min(hhmm) == hhmm[1] * 60 + hhmm[2]

\* points = [(center_lat, center_lon)] + the pickups of v_reqs.
vehicle_points(v) ==
    [i \in 0..Len(v.pickups) |-> IF i = 0 THEN <<0, 0>> ELSE <<v.pickups[i], 0>>]

\* pipeline._build_time_mat from cell k on, row by row: [mat, model], the
\* model carrying the generator's state after the samples drawn.
RECURSIVE build_time_mat_from(_, _, _, _, _, _)
build_time_mat_from(pts, m, factors, sample, k, mat) ==
    LET n == Cardinality(DOMAIN pts)
        i == k \div n
        j == k % n
    IN  IF k >= n * n THEN [mat |-> mat, model |-> m]
        ELSE IF i = j THEN build_time_mat_from(pts, m, factors, sample, k + 1, mat)
        ELSE IF sample
        THEN LET res == euclid_sample_travel_min(m, factors, pts[i][1], pts[j][1])
             IN  build_time_mat_from(pts, [m EXCEPT !.rng = res.rng], factors, sample,
                                     k + 1, [mat EXCEPT ![i][j] = res.t])
        ELSE build_time_mat_from(pts, m, factors, sample, k + 1,
                 [mat EXCEPT ![i][j] = euclid_mean_travel_min(m, pts[i][1], pts[j][1])])

\* pipeline._build_time_mat
build_time_mat(pts, m, factors, sample) ==
    build_time_mat_from(pts, m, factors, sample, 0,
                        [i \in DOMAIN pts |-> [j \in DOMAIN pts |-> 0]])

\* promise_at / actual_at: {node: times[i]}, a later position overwriting.
time_at(r, ts, nd) ==
    ts[Max({k \in 1..Len(r) : r[k] = nd})]

\* The event rows of one vehicle: one per position of the route that is no
\* depot, in route order.
RECURSIVE vehicle_events(_, _, _, _, _)
vehicle_events(g, r, promised, actual, k) ==
    IF k > Len(r) THEN <<>>
    ELSE IF r[k] = 0 THEN vehicle_events(g, r, promised, actual, k + 1)
    ELSE <<[vehicle_id |-> g, node_idx |-> r[k], stop_seq |-> k - 1,
            pickup_promise_min |-> time_at(r, promised, r[k]),
            pickup_actual_min |-> time_at(r, actual, r[k]),
            center_promise_min |-> promised[Len(promised)],
            center_actual_min |-> actual[Len(actual)],
            ride_time_min |-> FSub(actual[Len(actual)], time_at(r, actual, r[k]))]>>
         \o vehicle_events(g, r, promised, actual, k + 1)

\* The vehicles: one or two pickups, 1..MaxKm km from the center, and the
\* slot of their group, one of the two latest times of the format.
RunVehicles ==
    [pickups : {<<a>> : a \in 1..MaxKm}
                 \cup {<<a, b>> : a \in 1..MaxKm, b \in 1..MaxKm},
     slot : {<<0, m>> : m \in {MaxAnchor - 2, MaxAnchor} \cap Anchors}]

\* The run's inputs: two groups, the order their keys sort in, and the
\* routing configuration.
RunInputs ==
    {[vehs |-> vs, order |-> o, method |-> "time_nn", improve_2opt |-> TRUE] :
        vs \in {w \in [1..2 -> RunVehicles] :
                   \A g \in 1..2 : \A k \in 1..(Len(w[g].pickups) - 1) :
                       w[g].pickups[k] <= w[g].pickups[k + 1]},
        o \in {<<1, 2>>, <<2, 1>>}}

\* run after the configuration is read and the requests are grouped.
RunInit ==
    /\ run_in \in RunInputs
    /\ run_k = 0
    /\ v_idx = 0
    /\ dist_act = <<>> /\ promise_times = <<>> /\ actual_times = <<>>
    /\ run_out = <<>>
    /\ all_events = <<>>
    /\ runpc = "start"
    /\ tm_cfg \in {c \in TmConfigs :
                     c.kind = "euclid" /\ c.noise_sigma >= 0 /\ ~c.osmnx}
    /\ tm = NoModel /\ tm_err = "none" /\ stream \in Streams
    /\ tm_q = NoTmQuery /\ tmpc = "cfg"
    /\ TourIdle
    /\ events_df = None /\ kpis = <<>> /\ kerr = "none" /\ kpc = "off"
    /\ cfg = [kpi |-> "dict", has_thr |-> TRUE, thr |-> MaxThr]

\* tm = build_time_model(cfg)
RunBuildTimeModel ==
    /\ runpc = "start"
    /\ tm' = build_time_model(tm_cfg).model
    /\ tmpc' = "built"
    /\ runpc' = "loop"
    /\ UNCHANGED <<tm_cfg, tm_err, stream, tm_q, run_in, run_k, v_idx, dist_act,
                   promise_times, actual_times, run_out, all_events,
                   tourVars, tlVars, ptVars, kpiVars, roadVars, legVars, shVars>>

\* One pass of the vehicle loop: the matrices, the tour, the two timelines and
\* the event rows of the next group.
ProcessVehicle ==
    /\ runpc = "loop"
    /\ run_k < Len(run_in.order)
    /\ run_in' = run_in
    /\ LET g == run_in.order[run_k + 1]
           v == run_in.vehs[g]
           pts == vehicle_points(v)
           dist_mean == build_time_mat(pts, tm, stream, FALSE).mat
           sampled == build_time_mat(pts, tm, stream, TRUE)
       IN  /\ points' = pts
           /\ dist_mat' = dist_mean
           /\ dist_act' = sampled.mat
           /\ tm' = sampled.model
           /\ route' = (tsp_solve_tsp(Cardinality(DOMAIN points), TRUE, run_in.method,
                                      run_in.improve_2opt).route)'
           /\ \E total \in TotalOutcomes(Segments(route', dist_mat')) :
                promise_times' =
                    simulate_timeline(route', dist_mat', NoneF,
                                      Some(hhmm_to_min(v.slot)), total)
           /\ actual_times' =
                simulate_timeline(route', dist_act', Some(promise_times'[1]), NoneF,
                                  NaiveSum(Segments(route', dist_act'), 1, 0))
           /\ all_events' = all_events \o
                vehicle_events(g, route', promise_times', actual_times', 1)
           /\ run_out' = (g :> [points |-> points', route |-> route',
                                dist_act |-> dist_act',
                                promise_times |-> promise_times',
                                actual_times |-> actual_times',
                                events |-> SubSeq(all_events', Len(all_events) + 1,
                                                  Len(all_events'))])
                         @@ run_out
    /\ run_k' = run_k + 1
    /\ UNCHANGED <<call, tpc, tour_in, terr, tb, tm_cfg, tm_err, stream, tm_q, tmpc,
                   runpc, v_idx, tlVars, ptVars, kpiVars, roadVars, legVars, shVars>>

\* After the loop: events_df = pd.DataFrame(all_events) and
\* kpis = compute_kpis(events_df, cfg).
RunFinish ==
    /\ runpc = "loop"
    /\ run_k = Len(run_in.order)
    /\ events_df' = [is_none |-> FALSE,
                     columns |-> IF all_events = <<>> THEN {} ELSE DOMAIN all_events[1],
                     rows |-> all_events]
    /\ \E res \in {compute_kpis(events_df', cfg)} :
         /\ kpis' = res.kpis
         /\ kerr' = res.err
    /\ runpc' = "done"
    /\ UNCHANGED <<cfg, kpc, run_in, run_k, v_idx, dist_act, promise_times, actual_times,
                   run_out, all_events, tourVars, tlVars, ptVars, roadVars, tmVars, legVars, shVars>>

RunNext == RunBuildTimeModel \/ ProcessVehicle \/ RunFinish

InitRun == RunInit /\ TlIdle /\ PtIdle /\ RoadIdle /\ LegIdle /\ SharedIdle
SpecRun == InitRun /\ [][RunNext]_vars

\* The sampled matrix of group g had the loop processed it first, the
\* generator in its seeded state.
sampled_first(g) ==
    build_time_mat(run_out[g].points, build_time_model(tm_cfg).model, stream, TRUE).mat

\* C12: with noise sigma > 0 every group's sampled matrix, actual timeline and
\* events are the same whatever order the groups are processed in: they are
\* what the group gets when it is processed first.
C12_OrderIndependent ==
    (runpc \in {"loop", "done"} /\ tm_cfg.noise_sigma > 0)
    => \A g \in DOMAIN run_out :
          /\ run_out[g].dist_act = sampled_first(g)
          /\ run_out[g].actual_times =
                simulate_timeline(run_out[g].route, sampled_first(g),
                                  Some(run_out[g].promise_times[1]), NoneF, 0)
          /\ run_out[g].events =
                vehicle_events(g, run_out[g].route, run_out[g].promise_times,
                               simulate_timeline(run_out[g].route, sampled_first(g),
                                                 Some(run_out[g].promise_times[1]),
                                                 NoneF, 0), 1)

\* C13: for every vehicle group the run simulates, the promised timeline ends
\* at the group's slot time in minutes since midnight, and the actual timeline
\* starts when the promised one does.
C13_RunAnchors ==
    runpc \in {"loop", "done"}
    => \A g \in DOMAIN run_out :
          /\ run_out[g].promise_times[Len(run_out[g].promise_times)]
                = hhmm_to_min(run_in.vehs[g].slot)
          /\ run_out[g].actual_times[1] = run_out[g].promise_times[1]

(***************************************************************************)
(* The legacy hybrid router (src/legacy/routing.py): regret-2 insertion,   *)
(* 2-opt, tabu search over swaps and, from five customers on, a genetic    *)
(* pass.  Routes are Python lists, read with Python's indices through At.  *)
(* The random module is a tape: every random.sample or random.random call  *)
(* reads the next element, a record [i, j, u] of two distinct numbers and  *)
(* a boolean, and the tape repeats.                                        *)
(***************************************************************************)
LegacyMaxIter == 40
LegacyTabuSize == 10
GaGenerations == 30
GaPopSize == 20
GaElite == 5
GaParents == 10

RECURSIVE legacy_cost_from(_, _, _)
legacy_cost_from(r, dist, i) ==
    IF i >= Len(r) - 1 THEN 0
    ELSE dist[At(r, i)][At(r, i + 1)] + legacy_cost_from(r, dist, i + 1)

\* route_cost(route, dist_mat)
legacy_route_cost(r, dist) == legacy_cost_from(r, dist, 0)

\* list.remove(v), list.insert(pos, v) and the swap r[i], r[j] = r[j], r[i].
Remove(s, v) ==
    LET k == Min({i \in 1..Len(s) : s[i] = v})
    IN  SubSeq(s, 1, k - 1) \o SubSeq(s, k + 1, Len(s))
Insert(s, pos, v) == Slice(s, 0, pos) \o <<v>> \o Slice(s, pos, Len(s))
Swap(r, i, j) == [r EXCEPT ![i + 1] = r[j + 1], ![j + 1] = r[i + 1]]

\* The index of the first smallest and of the first largest element of x:
\* a strict comparison in a loop keeps the first optimum it meets.
FirstMin(x) == Min({k \in 1..Len(x) : \A m \in 1..Len(x) : x[k] <= x[m]})
FirstMax(x) == Min({k \in 1..Len(x) : \A m \in 1..Len(x) : x[k] >= x[m]})

\* The pairs (a, b), a # b, in the order the two loops over unvisited meet them.
PairsInOrder(unvisited) ==
    LET n == Len(unvisited)
        all == [k \in 1..(n * n) |-> <<unvisited[((k - 1) \div n) + 1],
                                       unvisited[((k - 1) % n) + 1]>>]
        differ(pr) == pr[1] # pr[2]
    IN  SelectSeq(all, differ)

\* The insertion costs of customer c at the positions 1 .. len(route) - 1.
insert_costs(rt, c, dist) ==
    [pos \in 1..(Len(rt) - 1) |->
        dist[At(rt, pos - 1)][c] + dist[c][At(rt, pos)]
            - dist[At(rt, pos - 1)][At(rt, pos)]]

regret(costs) ==
    IF Len(costs) > 1 THEN KthSmallest(costs, 1) - KthSmallest(costs, 0)
    ELSE KthSmallest(costs, 0)

RECURSIVE regret_loop(_, _, _)
regret_loop(rt, unvisited, dist) ==
    IF unvisited = <<>> THEN rt
    ELSE LET regrets == [k \in 1..Len(unvisited) |->
                            regret(insert_costs(rt, unvisited[k], dist))]
             best_node == unvisited[FirstMax(regrets)]
             best_pos == FirstMin(insert_costs(rt, best_node, dist))
         IN  regret_loop(Insert(rt, best_pos, best_node),
                         Remove(unvisited, best_node), dist)

regret_insert(nodes, dist) ==
    IF Len(nodes) = 1 THEN <<0, nodes[1], 0>>
    ELSE LET pairs == PairsInOrder(nodes)
             costs == [k \in 1..Len(pairs) |->
                          dist[0][pairs[k][1]] + dist[pairs[k][1]][pairs[k][2]]
                              + dist[pairs[k][2]][0]]
             best_pair == pairs[FirstMin(costs)]
         IN  regret_loop(<<0, best_pair[1], best_pair[2], 0>>,
                         Remove(Remove(nodes, best_pair[1]), best_pair[2]), dist)

\* One pass of two_opt's double loop from (i, j) on; best changes under it.
RECURSIVE legacy_pass(_, _, _, _)
legacy_pass(st, dist, i, j) ==
    LET n == Len(st.best)
    IN  IF i >= n - 2 THEN st
        ELSE IF j >= n - 1 THEN legacy_pass(st, dist, i + 1, i + 2)
        ELSE LET new_route == Slice(st.best, 0, i)
                                 \o Reverse(Slice(st.best, i, j + 1))
                                 \o Slice(st.best, j + 1, n)
             IN  IF legacy_route_cost(new_route, dist) < legacy_route_cost(st.best, dist)
                 THEN legacy_pass([best |-> new_route, improved |-> TRUE], dist, i, j + 1)
                 ELSE legacy_pass(st, dist, i, j + 1)

RECURSIVE legacy_two_opt_loop(_, _)
legacy_two_opt_loop(best, dist) ==
    LET st == legacy_pass([best |-> best, improved |-> FALSE], dist, 1, 2)
    IN  IF st.improved THEN legacy_two_opt_loop(st.best, dist) ELSE st.best

legacy_two_opt(rt, dist) == legacy_two_opt_loop(rt, dist)

\* The swaps (i, j) of tabu_search in loop order that are not tabu.
swap_moves(current, tabu) ==
    LET n == Len(current)
        all == [k \in 1..(n * n) |-> <<(k - 1) \div n, (k - 1) % n>>]
        open(mv) == /\ 1 <= mv[1] /\ mv[1] < mv[2] /\ mv[2] <= n - 2
                    /\ \A t \in 1..Len(tabu) : tabu[t] # mv
    IN  SelectSeq(all, open)

RECURSIVE legacy_tabu_loop(_, _, _)
legacy_tabu_loop(st, dist, it) ==
    IF it >= LegacyMaxIter THEN st.best
    ELSE LET moves == swap_moves(st.current, st.tabu)
         IN  IF moves = <<>> THEN st.best
             ELSE LET costs == [k \in 1..Len(moves) |->
                                   legacy_route_cost(Swap(st.current, moves[k][1], moves[k][2]), dist)]
                      first == FirstMin(costs)
                      move == moves[first]
                      cost == costs[first]
                      best_nr == Swap(st.current, move[1], move[2])
                      tabu == Append(st.tabu, move)
                  IN  legacy_tabu_loop(
                          [current |-> best_nr,
                           best |-> IF cost < st.best_cost THEN best_nr ELSE st.best,
                           best_cost |-> IF cost < st.best_cost THEN cost ELSE st.best_cost,
                           tabu |-> IF Len(tabu) > LegacyTabuSize THEN Tail(tabu) ELSE tabu],
                          dist, it + 1)

legacy_tabu_search(rt, dist) ==
    legacy_tabu_loop([current |-> rt, best |-> rt,
                      best_cost |-> legacy_route_cost(rt, dist), tabu |-> <<>>],
                     dist, 0)

\* The next value the random module returns.
draw(tape, k) == tape[(k % Len(tape)) + 1]

\* The fill loop of crossover: idx moves on while child[idx] # -1 and reads
\* past the end of the list when no free slot is left.
RECURSIVE fill_loop(_, _, _, _)
fill_loop(child, fill, f, idx) ==
    IF f > Len(fill) THEN [child |-> child, err |-> "none"]
    ELSE LET free == {k \in idx..(Len(child) - 1) : At(child, k) = -1}
         IN  IF free = {} THEN [child |-> child, err |-> "IndexError"]
             ELSE fill_loop([child EXCEPT ![Min(free) + 1] = fill[f]],
                            fill, f + 1, Min(free))

\* crossover(p1, p2) with a, b the sorted sample of two interior positions.
crossover(p1, p2, a, b) ==
    LET blank == [k \in 1..Len(p1) |-> IF a <= k - 1 /\ k - 1 < b THEN p1[k] ELSE -1]
        absent(x) == \A k \in 1..Len(blank) : blank[k] # x
        filled == fill_loop(blank, SelectSeq(p2, absent), 1, 1)
    IN  IF filled.err # "none" THEN filled
        ELSE [child |-> [filled.child EXCEPT ![1] = 0, ![Len(p1)] = 0], err |-> "none"]

\* mutate(r): random.random() < mutation_rate is the draw's u; the swap
\* positions are the next draw.
mutate(r, tape, k) ==
    IF draw(tape, k).u
    THEN [r |-> Swap(r, draw(tape, k + 1).i, draw(tape, k + 1).j), k |-> k + 2]
    ELSE [r |-> r, k |-> k + 1]

\* population.sort(key=route_cost): stable, by insertion.
RECURSIVE sort_by_cost(_, _)
sort_by_cost(population, dist) ==
    IF population = <<>> THEN <<>>
    ELSE LET costs == [k \in 1..Len(population) |-> legacy_route_cost(population[k], dist)]
             first == FirstMin(costs)
         IN  <<population[first]>>
                 \o sort_by_cost(SubSeq(population, 1, first - 1)
                                     \o SubSeq(population, first + 1, Len(population)), dist)

\* The initial population: the route and pop_size - 1 copies with one swap.
RECURSIVE ga_seed(_, _, _, _)
ga_seed(population, rt, tape, k) ==
    IF Len(population) >= GaPopSize THEN population
    ELSE ga_seed(Append(population, Swap(rt, draw(tape, k).i, draw(tape, k).j)),
                 rt, tape, k + 1)

\* The while loop that fills new_pop with children of the best parents.
RECURSIVE ga_children(_, _, _, _, _, _)
ga_children(population, new_pop, made, dist, tape, k) ==
    IF Len(new_pop) >= GaPopSize
    THEN [population |-> new_pop, children |-> made, k |-> k, err |-> "none"]
    ELSE LET parents == SubSeq(population, 1, Min({GaParents, Len(population)}))
             p1 == parents[draw(tape, k).i]
             p2 == parents[draw(tape, k).j]
             a == Min({draw(tape, k + 1).i, draw(tape, k + 1).j})
             b == Max({draw(tape, k + 1).i, draw(tape, k + 1).j})
             crossed == crossover(p1, p2, a, b)
             mutated == mutate(crossed.child, tape, k + 2)
         IN  IF crossed.err # "none"
             THEN [population |-> new_pop, children |-> made, k |-> k + 2,
                   err |-> crossed.err]
             ELSE ga_children(population, Append(new_pop, mutated.r),
                              Append(made, mutated.r), dist, tape, mutated.k)

RECURSIVE ga_generations(_, _, _, _, _, _)
ga_generations(population, made, g, dist, tape, k) ==
    IF g >= GaGenerations
    THEN [route |-> sort_by_cost(population, dist)[1], children |-> made, err |-> "none"]
    ELSE LET sorted == sort_by_cost(population, dist)
             next == ga_children(sorted, SubSeq(sorted, 1, GaElite), made, dist, tape, k)
         IN  IF next.err # "none"
             THEN [route |-> <<>>, children |-> next.children, err |-> next.err]
             ELSE ga_generations(next.population, next.children, g + 1, dist, tape, next.k)

ga_optimize(rt, dist, tape) ==
    ga_generations(ga_seed(<<rt>>, rt, tape, 0), <<>>, 0, dist, tape, GaPopSize - 1)

\* r1, r2, r3 of hybrid_route: insertion, 2-opt, tabu.
local_search(nodes, dist) ==
    legacy_tabu_search(legacy_two_opt(regret_insert(nodes, dist), dist), dist)

uses_ga(nodes, r3) == ~(Len(nodes) <= 4 \/ Len(r3) < 6)

hybrid_route(nodes, dist, tape) ==
    LET r3 == local_search(nodes, dist)
    IN  IF uses_ga(nodes, r3) THEN ga_optimize(r3, dist, tape)
        ELSE [route |-> r3, children |-> <<>>, err |-> "none"]

\* ---- inputs
\* The customers 1 .. MaxLegN, some of them, listed upwards or downwards.
RECURSIVE Ascending(_)
Ascending(S) ==
    IF S = {} THEN <<>> ELSE <<Min(S)>> \o Ascending(S \ {Min(S)})

NodeLists ==
    {Ascending(S) : S \in SUBSET (1..MaxLegN) \ {{}}}
        \cup {Reverse(Ascending(S)) : S \in SUBSET (1..MaxLegN) \ {{}}}

\* Distances on a line, a skewed matrix, and one with every tie.
LegMats ==
    { [a \in 0..MaxLegN |-> [b \in 0..MaxLegN |-> Abs(a - b)]],
      [a \in 0..MaxLegN |-> [b \in 0..MaxLegN |-> IF a = b THEN 0 ELSE (2 * a + b) % 4]],
      [a \in 0..MaxLegN |-> [b \in 0..MaxLegN |-> IF a = b THEN 0 ELSE 1]] }

Draws == {d \in [i : 1..MaxPick, j : 1..MaxPick, u : BOOLEAN] : d.i # d.j}
Tapes == [1..2 -> Draws]

LegInit ==
    /\ leg_in \in [nodes : NodeLists, dist_mat : LegMats]
    /\ leg_tape = <<>> /\ leg_route = <<>> /\ leg_children = <<>>
    /\ leg_err = "none" /\ legpc = "idle"

\* hybrid_route(nodes, dist_mat)
HybridRoute ==
    /\ legpc = "idle"
    /\ \E r3 \in {local_search(leg_in.nodes, leg_in.dist_mat)} :
          IF uses_ga(leg_in.nodes, r3)
          THEN \E tape \in Tapes :
                  \E res \in {ga_optimize(r3, leg_in.dist_mat, tape)} :
                      /\ leg_tape' = tape
                      /\ leg_route' = res.route
                      /\ leg_children' = res.children
                      /\ leg_err' = res.err
                      /\ legpc' = IF res.err = "none" THEN "returned" ELSE "raised"
          ELSE /\ leg_tape' = <<>>
               /\ leg_route' = r3
               /\ leg_children' = <<>>
               /\ leg_err' = "none"
               /\ legpc' = "returned"
    /\ UNCHANGED <<leg_in, tourVars, tlVars, ptVars, kpiVars, roadVars, tmVars, runVars, shVars>>

LegNext == HybridRoute

InitLegacy == LegInit /\ TourIdle /\ TlIdle /\ PtIdle /\ KpiIdle /\ RoadIdle /\ TmIdle /\ RunIdle /\ SharedIdle
SpecLegacy == InitLegacy /\ [][LegNext]_vars

\* A tour over the customers: 0 first and last and nowhere else, every
\* customer of nodes exactly once.
LegacyTour(r, nodes) ==
    /\ Len(r) = Len(nodes) + 2
    /\ r[1] = 0 /\ r[Len(r)] = 0
    /\ \A k \in 2..(Len(r) - 1) : r[k] # 0
    /\ \A c \in 1..Len(nodes) :
          Cardinality({k \in 1..Len(r) : r[k] = nodes[c]}) = 1

\* C14: hybrid_route returns, without raising, a tour that starts and ends
\* at 0, has 0 at no interior position and holds every customer exactly
\* once, for every non-empty list of distinct customers; and every
\* individual the GA makes by crossover and mutation has that form.
C14_HybridRouteTour ==
    legpc \notin {"idle", "off"}
    => /\ leg_err = "none"
       /\ LegacyTour(leg_route, leg_in.nodes)
       /\ \A c \in 1..Len(leg_children) : LegacyTour(leg_children[c], leg_in.nodes)

(***************************************************************************)
(* Tabu search called on its own: route_solver._tabu_search(route,         *)
(* dist_mat, seed, iters, tabu_tenure) on any round trip, on route lengths *)
(* on both sides of its small-n guard.                                     *)
(***************************************************************************)
\* The numbers of points whose round trips are just under and at SmallN.
TabuSizes == {SmallN - 2, SmallN - 1}

\* Distances on a line, a skewed matrix, and one with every tie.
TabuMats(n) ==
    { [a \in 0..(n - 1) |-> [b \in 0..(n - 1) |-> Abs(a - b)]],
      [a \in 0..(n - 1) |-> [b \in 0..(n - 1) |-> IF a = b THEN 0 ELSE (2 * a + b) % (MaxD + 2)]],
      [a \in 0..(n - 1) |-> [b \in 0..(n - 1) |-> IF a = b THEN 0 ELSE 1]] }

TabuInit ==
    /\ \E n \in TabuSizes :
          /\ points = [i \in 0..(n - 1) |-> <<0, 0>>]
          /\ dist_mat \in TabuMats(n)
    /\ call = NoCall /\ tpc = "idle"
    /\ tour_in = <<>> /\ route = <<>> /\ terr = "none" /\ tb = NoTabu

\* A call of _tabu_search: under SmallN positions it returns _two_opt's
\* result, otherwise it enters the loop.
CallTabuSearch ==
    /\ tpc = "idle"
    /\ \E tour \in Tours(NumPoints), iters \in 0..TabuIters, tenure \in {2, DefaultTenure} :
         /\ call' = [NoCall EXCEPT !.fn = "route_solver._tabu_search", !.has_mat = TRUE,
                                   !.tabu_iters = iters]
         /\ tour_in' = tour
         /\ IF Len(tour) < SmallN
            THEN /\ tb' = tb
                 /\ route' = rs_two_opt(tour, SmallMaxPasses)
                 /\ tpc' = "done"
            ELSE /\ tb' = tabu_init(tour, iters, tenure)
                 /\ route' = <<>>
                 /\ tpc' = "tabu"
    /\ terr' = "none"
    /\ UNCHANGED <<points, dist_mat, tlVars, ptVars, kpiVars, roadVars, tmVars, runVars, legVars, shVars>>

TabuNext == CallTabuSearch \/ TabuIter \/ TabuReturn

InitTabu == TabuInit /\ TlIdle /\ PtIdle /\ KpiIdle /\ RoadIdle /\ TmIdle /\ RunIdle /\ LegIdle /\ SharedIdle
SpecTabu == InitTabu /\ [][TabuNext]_vars

\* _tabu_search has returned from its loop.
TabuReturned ==
    tpc = "done" /\ call.fn = "route_solver._tabu_search" /\ Len(tour_in) >= SmallN

ChainMat(m) ==
    [a \in 0..(m + 2) |-> [b \in 0..(m + 2) |->
        IF a = b THEN 0
        ELSE IF a < m /\ b = a + 1 THEN 0
        ELSE IF a <= m /\ b = m + 1 THEN a
        ELSE IF a = m + 1 /\ b >= 1 THEN 0
        ELSE IF a = m /\ b = m + 2 THEN 0
        ELSE IF a = m + 2 /\ b = 0 THEN 0
        ELSE Pow2(MantBits)]]

PassesInit ==
    /\ \E m \in 1..MaxChain :
          /\ points = [i \in 0..(m + 2) |-> <<0, 0>>]
          /\ dist_mat = ChainMat(m)
    /\ call = NoCall /\ tpc = "idle"
    /\ tour_in = <<>> /\ route = <<>> /\ terr = "none" /\ tb = NoTabu

\* tsp._two_opt(route, dist_mat, points) called where the configuration asks
\* for at most max_passes passes.
TspTwoOptUnderCap ==
    /\ tpc = "idle"
    /\ \E tour \in Tours(NumPoints), max_passes \in 1..MaxPassCap :
         /\ call' = [NoCall EXCEPT !.fn = "tsp._two_opt", !.has_mat = TRUE,
                                   !.max_passes = max_passes]
         /\ tour_in' = tour
         /\ route' = tsp_two_opt(tour, TRUE)
    /\ terr' = "none"
    /\ tpc' = "done"
    /\ UNCHANGED <<points, dist_mat, tb, tlVars, ptVars, kpiVars, roadVars, tmVars, runVars, legVars, shVars>>

\* route_solver._two_opt(route, dist_mat, max_passes=max_passes)
RsTwoOptUnderCap ==
    /\ tpc = "idle"
    /\ \E tour \in Tours(NumPoints), max_passes \in 1..MaxPassCap :
         /\ call' = [NoCall EXCEPT !.fn = "route_solver._two_opt", !.has_mat = TRUE,
                                   !.max_passes = max_passes]
         /\ tour_in' = tour
         /\ route' = rs_two_opt(tour, max_passes)
    /\ terr' = "none"
    /\ tpc' = "done"
    /\ UNCHANGED <<points, dist_mat, tb, tlVars, ptVars, kpiVars, roadVars, tmVars, runVars, legVars, shVars>>

PassesNext == TspTwoOptUnderCap \/ RsTwoOptUnderCap

InitPasses == PassesInit /\ TlIdle /\ PtIdle /\ KpiIdle /\ RoadIdle /\ TmIdle /\ RunIdle /\ LegIdle /\ SharedIdle
SpecPasses == InitPasses /\ [][PassesNext]_vars

\* The passes the call made on its input tour.
PassesMade ==
    IF call.fn = "tsp._two_opt" THEN tsp_two_opt_run(tour_in, TRUE).passes
    ELSE rs_two_opt_run(tour_in, call.max_passes).passes

\* C21: every 2-opt call returns after at most the configured cap of passes,
\* route_solver._two_opt and tsp._two_opt alike.
C21_BoundedPasses ==
    tpc = "done" => PassesMade <= call.max_passes

\* The node at the second-to-last position of a tour.
LastPickup(r) == r[Len(r) - 1]

\* C22: tsp._two_opt, route_solver._two_opt and tabu search never move the
\* node at the second-to-last tour position: in the tours they hold and
\* return it is the node the input tour has there.
C22_LastPickupStays ==
    /\ (tpc = "done" /\ tour_in # <<>> /\ route # <<>>)
          => (Len(route) = Len(tour_in) /\ LastPickup(route) = LastPickup(tour_in))
    /\ tpc = "tabu"
          => /\ LastPickup(tb.cur) = LastPickup(tour_in)
             /\ LastPickup(tb.best) = LastPickup(tour_in)

\* C22 witness: tabu search on six positions has returned a tour other than
\* its input, whose second-to-last node is the input's.
C22_Witness ==
    /\ tpc = "done"
    /\ call.fn = "route_solver.solve_tsp" /\ call.method = "tabu"
    /\ Len(tour_in) >= SmallN
    /\ route # tour_in
    /\ tb.cur # tb.best
    /\ LastPickup(route) = LastPickup(tour_in)

\* The move has an entry in the tabu list that has not expired at iteration t.
Unexpired(tabu, move, t) == \E m \in DOMAIN tabu : m = move /\ tabu[m] > t

\* The step took the candidate of the draws i0, k0 as the current tour and
\* gave its move the expiry t + tenure.
Accepted(i0, k0) ==
    LET nb == neighbors(tb.cur, i0, k0)
    IN  /\ tb'.cur = nb.cand
        /\ tb'.cur_cost = rs_route_cost(nb.cand)
        /\ nb.move \in DOMAIN tb'.tabu
        /\ tb'.tabu[nb.move] = tb.t + tb.tenure

\* The step left the current tour and the tabu list as they were.
Rejected == tb'.cur = tb.cur /\ tb'.tabu = tb.tabu

\* C23: at iteration t a candidate swap becomes the current tour, its move
\* getting the expiry t + tenure, exactly when its move has no unexpired tabu
\* entry or its cost is strictly below the best-known cost; otherwise the
\* step changes neither the current tour nor the tabu list.
C23_TabuAcceptance ==
    [][TabuIter =>
        \A i0, k0 \in 1..(Len(tb.cur) - 3) :
            (i0 # k0 /\ tb' = tabu_step(tb, i0, k0))
            => LET nb == neighbors(tb.cur, i0, k0)
                   free == ~Unexpired(tb.tabu, nb.move, tb.t)
                   better == rs_route_cost(nb.cand) < tb.best_cost
               IN  /\ (free \/ better) <=> Accepted(i0, k0)
                   /\ ~(free \/ better) <=> Rejected]_vars

\* C23 witness: a run on a tenure of 2 holds an expired entry and an
\* unexpired one after accepting a tour that costs more than the best.
C23_Witness ==
    /\ tpc = "tabu"
    /\ tb.tenure = 2
    /\ \E m \in DOMAIN tb.tabu : tb.tabu[m] <= tb.t
    /\ \E m \in DOMAIN tb.tabu : tb.tabu[m] > tb.t
    /\ tb.cur_cost > tb.best_cost

\* The move of the swap accepted last: the entry of the latest expiry.
LastAccepted(tabu) == CHOOSE m \in DOMAIN tabu : \A x \in DOMAIN tabu : tabu[x] <= tabu[m]

\* The draws i0, k0 exchange back the two nodes of the swap accepted last,
\* which restores the tour held before it, while its tenure has not expired.
SwapsBack(i0, k0) ==
    /\ i0 # k0
    /\ DOMAIN tb.tabu # {}
    /\ LET nb == neighbors(tb.cur, i0, k0)
           last == LastAccepted(tb.tabu)
       IN  /\ nb.move = <<last[2], last[1]>>
           /\ tb.t < tb.tabu[last]

\* C24: within the tenure of an accepted swap, the swap that exchanges the
\* same two nodes back is accepted only when the tour it restores costs less
\* than the best-known cost.
C24_ReverseSwapTabu ==
    [][TabuIter =>
        \A i0, k0 \in 1..(Len(tb.cur) - 3) :
            (SwapsBack(i0, k0) /\ tb' = tabu_step(tb, i0, k0))
            => (tb'.cur = neighbors(tb.cur, i0, k0).cand
                   => rs_route_cost(tb'.cur) < tb.best_cost)]_vars

\* The two solve_tsp alone, up to the tour the construction hands on.
ConstructNext == CallTspSolve \/ CallRsSolve

InitConstruct == TourInit /\ TlIdle /\ PtIdle /\ KpiIdle /\ RoadIdle /\ TmIdle /\ RunIdle /\ LegIdle /\ SharedIdle
SpecConstruct == InitConstruct /\ [][ConstructNext]_vars

\* The distance the nearest-neighbour construction of the call compares:
\* Euclidean between the points for "euclid_nn", the matrix entry otherwise.
NnDistance(a, b) ==
    IF call.fn = "tsp.solve_tsp" /\ call.method = "euclid_nn"
    THEN tsp_euclid(points[a], points[b])
    ELSE dist_mat[a][b]

\* The nodes appended before position p of the tour (positions from 1).
Visited(r, p) == {r[x] : x \in 1..(p - 1)}

\* C25: in the nearest-neighbour tour of either solve_tsp every appended node is an unvisited
\* node at the least distance from the node before it, the lowest index among
\* those at that distance, and the depot is appended at the end.
C25_NearestNeighbour ==
    (call.fn \in {"tsp.solve_tsp", "route_solver.solve_tsp"} /\ tour_in # <<>>)
    => /\ Len(tour_in) = NumPoints + 1
       /\ tour_in[1] = 0
       /\ tour_in[Len(tour_in)] = 0
       /\ \A p \in 2..NumPoints :
            LET cur == tour_in[p - 1]
                nxt == tour_in[p]
                unvisited == (1..(NumPoints - 1)) \ Visited(tour_in, p)
            IN  /\ nxt \in unvisited
                /\ \A j \in unvisited :
                     \/ NnDistance(cur, nxt) < NnDistance(cur, j)
                     \/ (NnDistance(cur, nxt) = NnDistance(cur, j) /\ nxt <= j)

\* C25 witness: a tour over four or more points in which a tie between two
\* unvisited nodes was settled and a node of higher index was visited before
\* a nearer-numbered one.
C25_Witness ==
    /\ tpc \in {"done", "tabu"}
    /\ call.fn \in {"tsp.solve_tsp", "route_solver.solve_tsp"}
    /\ NumPoints >= 4
    /\ tour_in # <<>>
    /\ \E p \in 2..NumPoints :
         \E j \in (1..(NumPoints - 1)) \ Visited(tour_in, p + 1) :
            NnDistance(tour_in[p - 1], tour_in[p]) = NnDistance(tour_in[p - 1], j)
    /\ \E p \in 2..(NumPoints - 1) : tour_in[p] > tour_in[p + 1]

\* The requests placed in the vehicles, and those of the group left out.
Placed == UNION {{vehicles[k][x] : x \in 1..Len(vehicles[k])} : k \in 1..Len(vehicles)}
LeftOut == {pt_in.g[x] : x \in 1..Len(pt_in.g)} \ Placed

\* C26: split_requests_into_buses with strategy "center_dist", a positive
\* capacity and a vehicle cap of zero or more, cuts the requests sorted by
\* distance to the center into consecutive blocks of cap requests (the last
\* one possibly shorter): no request of a group is farther than a request of
\* the next group, and the requests left out are the N - cap * max_bus
\* farthest (none when that is not positive).
C26_CenterDistBlocks ==
    (/\ ptpc = "done"
     /\ pt_in.fn = "split_requests_into_buses"
     /\ pt_in.strategy = "center_dist"
     /\ pt_in.cap > 0
     /\ pt_in.max_veh >= 0)
    => LET N == Len(pt_in.g) IN
       /\ perr = "none"
       /\ Len(vehicles) = Min({CeilDiv(N, pt_in.cap), pt_in.max_veh})
       /\ \A k \in 1..Len(vehicles) :
            /\ k < Len(vehicles) => Len(vehicles[k]) = pt_in.cap
            /\ Len(vehicles[k]) \in 1..pt_in.cap
            /\ \A x, y \in 1..Len(vehicles[k]) :
                  vehicles[k][x] = vehicles[k][y] => x = y
       /\ \A k \in 1..(Len(vehicles) - 1) :
            \A x \in 1..Len(vehicles[k]), y \in 1..Len(vehicles[k + 1]) :
               /\ vehicles[k][x].center_dist <= vehicles[k + 1][y].center_dist
               /\ vehicles[k][x] # vehicles[k + 1][y]
       /\ Placed \subseteq {pt_in.g[x] : x \in 1..N}
       /\ Cardinality(LeftOut) = Max({0, N - pt_in.cap * pt_in.max_veh})
       /\ \A a \in Placed, b \in LeftOut : a.center_dist <= b.center_dist

\* C26 witness: five requests arriving with a far one first, two vehicles of
\* two: the request left out is a far one and the first vehicle holds only
\* near ones.
C26_Witness ==
    /\ ptpc = "done"
    /\ pt_in.fn = "split_requests_into_buses"
    /\ pt_in.strategy = "center_dist"
    /\ Len(pt_in.g) = 5 /\ pt_in.cap = 2 /\ pt_in.max_veh = 2
    /\ pt_in.g[1].center_dist = 2
    /\ Len(vehicles) = 2
    /\ \A x \in 1..2 : vehicles[1][x].center_dist = 1
    /\ \E b \in LeftOut : b.center_dist = 2

(***************************************************************************)
(* The simulation loop from the grouped requests on: each (center, slot,   *)
(* class) group is partitioned into vehicles, and every vehicle is routed, *)
(* timed and turned into event rows.  run_in holds the groups' requests,   *)
(* the fleet's two capacities and its vehicle cap, and whether the method  *)
(* is "cluster_first" (partition "cluster_first") or a routing method      *)
(* (partition "default").  Group 1 is of bus type "WC", group 2 is not.    *)
(***************************************************************************)
\* The most requests in a group of the run, the largest capacity and the
\* largest vehicle cap of its fleet.
MaxGroupReq == 3
MaxGroupCap == 2
MaxGroupVeh == 2

\* The requests of one group, by req_id, each MaxKm or fewer km from the
\* center along a line: a single request or MaxGroupReq of them; groupby
\* yields no empty group.
GroupRequests(dists) ==
    UNION {
        {[k \in 1..n |-> [req_id |-> k, center_dist |-> d[k]]] : d \in [1..n -> dists]} :
            n \in {1, MaxGroupReq}}

\* The run's inputs: two groups in the order their keys sort in, the second
\* one of MaxGroupReq requests 1 km from the center.
GroupedInputs ==
    {[groups |-> <<g1, g2>>, order |-> <<1, 2>>, slot |-> <<0, MaxAnchor>>,
      capacity_wc |-> cap_wc, capacity_gen |-> MaxGroupCap, max_veh |-> max_veh,
      partition |-> pm[1], strategy |-> pm[2],
      method |-> "time_nn", improve_2opt |-> TRUE] :
        g1 \in GroupRequests({1, 2}),
        g2 \in {g \in GroupRequests({1}) : Len(g) = MaxGroupReq},
        cap_wc \in {-1, 0, 1, MaxGroupCap},
        max_veh \in 0..MaxGroupVeh,
        pm \in {<<"default", "chunk">>, <<"cluster_first", "chunk">>,
                <<"cluster_first", "center_dist">>}}

\* run after the configuration is read and the requests are grouped.
GroupedInit ==
    /\ run_in \in GroupedInputs
    /\ run_k = 0
    /\ v_idx = 0
    /\ dist_act = <<>> /\ promise_times = <<>> /\ actual_times = <<>>
    /\ run_out = <<>>
    /\ all_events = <<>>
    /\ runpc = "start"
    /\ tm_cfg = [kind |-> "euclid", default_speed_kmh |-> 60, noise_sigma |-> 1,
                 osmnx |-> FALSE]
    /\ tm = NoModel /\ tm_err = "none" /\ stream = [k \in 1..MaxDraws |-> 3]
    /\ tm_q = NoTmQuery /\ tmpc = "cfg"
    /\ TourIdle
    /\ pt_in = None /\ vehicles = <<>> /\ perr = "none" /\ ptpc = "idle"
    /\ events_df = None /\ kpis = <<>> /\ kerr = "none" /\ kpc = "off"
    /\ cfg = [kpi |-> "dict", has_thr |-> TRUE, thr |-> MaxThr]

\* The head of the group loop: the group's requests are split into vehicles.
\* An exception of the partitioner ends the run; `if not vehicles: continue`
\* goes on to the next group.
PartitionGroup ==
    /\ runpc = "loop"
    /\ run_k < Len(run_in.order)
    /\ LET g == run_in.order[run_k + 1]
           reqs == run_in.groups[g]
           cap == IF g = 1 THEN run_in.capacity_wc ELSE run_in.capacity_gen
       IN  /\ pt_in' = [g |-> reqs, cap |-> cap, max_veh |-> run_in.max_veh,
                        fn |-> IF run_in.partition = "cluster_first"
                               THEN "split_requests_into_buses"
                               ELSE "_split_vehicles_df",
                        strategy |-> run_in.strategy]
           /\ \E df \in (IF run_in.strategy = "center_dist" THEN SortedByCenterDist(reqs)
                         ELSE {reqs}) :
                \E res \in {IF run_in.partition = "cluster_first"
                            THEN split_requests_into_buses(reqs, df, cap, run_in.max_veh)
                            ELSE split_vehicles_df(reqs, cap, run_in.max_veh)} :
                  /\ vehicles' = res.vehicles
                  /\ perr' = res.err
                  /\ IF res.err # "none"
                     THEN /\ runpc' = "raised"
                          /\ UNCHANGED <<run_k, run_out>>
                     ELSE IF res.vehicles = <<>>
                     THEN /\ runpc' = "loop"
                          /\ run_k' = run_k + 1
                          /\ run_out' = (g :> [vehicles |-> <<>>]) @@ run_out
                     ELSE /\ runpc' = "vehicles"
                          /\ UNCHANGED <<run_k, run_out>>
    /\ v_idx' = 0
    /\ ptpc' = "done"
    /\ UNCHANGED <<run_in, dist_act, promise_times, actual_times, all_events,
                   tourVars, tlVars, kpiVars, roadVars, tmVars, legVars, shVars>>

\* The rows of a loop that starts after the first pickup of the tour.
event_rows_after_first(vehicle_id, v_reqs, r, promised, actual) ==
    LET ev == vehicle_events(vehicle_id, r, promised, actual, 3)
    IN  [k \in 1..Len(ev) |->
            [request_id |-> v_reqs[ev[k].node_idx].req_id] @@ ev[k]]

\* The rows appended for one vehicle: vehicle_events' rows, each with the
\* request_id of the row of v_reqs its node stands for.
event_rows(vehicle_id, v_reqs, r, promised, actual) ==
    LET ev == vehicle_events(vehicle_id, r, promised, actual, 1)
    IN  [k \in 1..Len(ev) |->
            [request_id |-> v_reqs[ev[k].node_idx].req_id] @@ ev[k]]

\* The vehicle loop after the last vehicle of a group goes on to the next group.
NextVehicle(g) ==
    /\ v_idx' = v_idx + 1
    /\ IF v_idx + 1 = Len(vehicles)
       THEN /\ runpc' = "loop"
            /\ run_k' = run_k + 1
            /\ run_out' = (g :> [vehicles |-> vehicles]) @@ run_out
       ELSE UNCHANGED <<runpc, run_k, run_out>>

\* The head of one pass of the vehicle loop on the next vehicle of the group:
\* a vehicle without a pickup is passed over; otherwise the points and the
\* mean and the sampled matrix are built.
BuildTimeMats ==
    /\ runpc = "vehicles"
    /\ v_idx < Len(vehicles)
    /\ LET g == run_in.order[run_k + 1]
           v_reqs == vehicles[v_idx + 1]
           pts == vehicle_points([pickups |-> [k \in 1..Len(v_reqs) |->
                                                  v_reqs[k].center_dist]])
           sampled == build_time_mat(pts, tm, stream, TRUE)
       IN  IF Len(v_reqs) = 0
           THEN /\ NextVehicle(g)
                /\ UNCHANGED <<points, dist_mat, dist_act, tm>>
           ELSE /\ points' = pts
                /\ dist_mat' = build_time_mat(pts, tm, stream, FALSE).mat
                /\ dist_act' = sampled.mat
                /\ tm' = sampled.model
                /\ runpc' = "route"
                /\ UNCHANGED <<v_idx, run_k, run_out>>
    /\ UNCHANGED <<call, tpc, tour_in, route, terr, tb, tm_cfg, tm_err, stream, tm_q, tmpc,
                   run_in, promise_times, actual_times, all_events,
                   tlVars, ptVars, kpiVars, roadVars, legVars, shVars>>

\* The rest of the pass: the tour, the two timelines and one event row per
\* node of the tour that is no depot.
RouteVehicle ==
    /\ runpc = "route"
    /\ LET g == run_in.order[run_k + 1]
           v_reqs == vehicles[v_idx + 1]
       IN  /\ v_idx' = v_idx + 1
           /\ IF v_idx + 1 = Len(vehicles)
              THEN /\ runpc' = "loop"
                   /\ run_k' = run_k + 1
                   /\ run_out' = (g :> [vehicles |-> vehicles]) @@ run_out
              ELSE /\ runpc' = "vehicles"
                   /\ UNCHANGED <<run_k, run_out>>
           /\ route' = tsp_solve_tsp(Cardinality(DOMAIN points), TRUE,
                                     run_in.method, run_in.improve_2opt).route
           /\ \E total \in TotalOutcomes(Segments(route', dist_mat)) :
                promise_times' =
                    simulate_timeline(route', dist_mat, NoneF,
                                      Some(hhmm_to_min(run_in.slot)), total)
           /\ actual_times' =
                simulate_timeline(route', dist_act, Some(promise_times'[1]), NoneF,
                                  NaiveSum(Segments(route', dist_act), 1, 0))
           /\ all_events' = all_events \o
                event_rows(<<g, v_idx>>, v_reqs, route', promise_times', actual_times')
    /\ UNCHANGED <<points, dist_mat, call, tpc, tour_in, terr, tb, tmVars,
                   run_in, dist_act, tlVars, ptVars, kpiVars, roadVars, legVars, shVars>>

GroupedNext ==
    RunBuildTimeModel \/ PartitionGroup \/ BuildTimeMats \/ RouteVehicle \/ RunFinish

InitGrouped == GroupedInit /\ TlIdle /\ RoadIdle /\ LegIdle /\ SharedIdle
SpecGrouped == InitGrouped /\ [][GroupedNext]_vars

\* The event rows of group g that carry the request id.
EventsOf(g, req_id) ==
    {k \in 1..Len(all_events) :
        all_events[k].vehicle_id[1] = g /\ all_events[k].request_id = req_id}

\* The requests of group g its partition placed in a vehicle.
PlacedIn(g) ==
    UNION {{run_out[g].vehicles[k][x].req_id : x \in 1..Len(run_out[g].vehicles[k])} :
              k \in 1..Len(run_out[g].vehicles)}

\* C27: for every group the loop is through with, each request placed in a
\* vehicle has exactly one event row and each request the partitioner dropped
\* has none; a group whose partition yields no vehicle has no event row, and
\* the loop goes on: the run raises nothing after a partition that returned,
\* and once it is done every group has been gone through.
C27_OneEventPerPlacedRequest ==
    /\ \A g \in DOMAIN run_out :
          \A x \in 1..Len(run_in.groups[g]) :
             Cardinality(EventsOf(g, run_in.groups[g][x].req_id))
                = IF run_in.groups[g][x].req_id \in PlacedIn(g) THEN 1 ELSE 0
    /\ \A k \in 1..Len(all_events) :
          \/ all_events[k].vehicle_id[1] \in DOMAIN run_out
          \/ /\ runpc \in {"vehicles", "route"}
             /\ all_events[k].vehicle_id[1] = run_in.order[run_k + 1]
    /\ runpc = "raised" => vehicles = <<>> /\ perr # "none"
    /\ runpc = "done" => DOMAIN run_out = {1, 2} /\ kerr = "none"
    /\ runpc = "loop" => DOMAIN run_out = {run_in.order[k] : k \in 1..run_k}

\* C27 witness: a finished run whose first group got no vehicle and whose
\* second group had a request dropped and others placed.
C27_Witness ==
    /\ runpc = "done"
    /\ run_out[1].vehicles = <<>>
    /\ all_events # <<>>
    /\ \E x \in 1..Len(run_in.groups[2]) : EventsOf(2, x) = {}

(***************************************************************************)
(* Connectivity repair on graphs large enough for a strongly connected     *)
(* component to reach the size kept: node 1 of the ring stands for 1,      *)
(* MinStrongSize - 1, MinStrongSize or 30 * MinStrongSize nodes, and a     *)
(* query that resolves to one of them resolves to node 1.                  *)
(***************************************************************************)
ClusterSizes == {1, MinStrongSize - 1, MinStrongSize, 30 * MinStrongSize}

ClusteredGraphs ==
    {[nodes |-> 1..RoadNodes,
      w |-> [u \in 1..RoadNodes |-> [v \in 1..RoadNodes |->
               IF <<u, v>> \in RingEdges THEN x[<<u, v>>] ELSE 0]],
      mult |-> m] :
        x \in [RingEdges -> {0, 1}],
        m \in {mm \in [1..RoadNodes -> ClusterSizes] : \A u \in 2..RoadNodes : mm[u] = 1}}

\* The state of __init__ after ox.load_graphml and _ensure_travel_time.
RepairInit ==
    /\ G \in ClusteredGraphs
    /\ G_u = None
    /\ nn_cache = <<>>
    /\ od_cache = <<>>
    /\ q = NoQuery
    /\ rpc = "raw"

RepairNext ==
    \/ KeepAndMirror
    \/ \E a, b \in 1..RoadNodes : MeanTravelMin(a, b)

InitRepair == RepairInit /\ TourIdle /\ TlIdle /\ PtIdle /\ KpiIdle /\ TmIdle /\ RunIdle /\ LegIdle /\ SharedIdle
SpecRepair == InitRepair /\ [][RepairNext]_vars

\* The threshold of the repair: max(1000, 5% of the node count).
RepairThreshold(g) == Max({MinStrongSize, FivePercent(number_of_nodes(g))})

\* C28: the repair keeps the largest strongly connected component when its
\* size exceeds max(1000, 5% of the node count) and the largest weakly
\* connected component otherwise, and the graph and its mirror hold exactly
\* the nodes of the component kept.
C28_RepairKeeps ==
    [][KeepAndMirror =>
        LET strong == Largest(G, strongly_connected_components(G))
            weak == Largest(G, weakly_connected_components(G))
            kept == IF Size(G, strong) > RepairThreshold(G) THEN strong ELSE weak
        IN  /\ G'.nodes = kept
            /\ G_u'.nodes = kept]_vars

Workers == {1, 2}

\* The loaded graphs: each link of the ring is absent or one-way.
SharedGraphs ==
    {g \in LoadedGraphs :
        \A u, v \in 1..RoadNodes :
            /\ g.w[u][v] \in {0, 1}
            /\ (g.w[u][v] > 0 /\ RingEdge(u, v)) => v = (u % RoadNodes) + 1}

\* ox.distance.nearest_nodes on the index of the retained graph.
nearest_node(index, a) == index[a]

\* The wrapper's store: `if key in cache: pass  else: cache[key] = result`.
cache_put(cache, key, value) ==
    IF key \in DOMAIN cache THEN cache ELSE (key :> value) @@ cache

\* The key of (u, v) with its two nodes sorted.
od_key_unordered(u, v) == <<Min({u, v}), Max({u, v})>>

\* The key lru_cache makes of the arguments of _od_time_min(u, v).
od_key(u, v) == <<u, v>>

NoWork == [pc |-> "idle", a |-> 0, b |-> 0, u |-> 0, v |-> 0, t |-> 0, computed |-> {}]

\* A constructed model, its caches empty, and the workers about to call it.
SharedInit ==
    /\ \E g \in SharedGraphs :
         /\ G = keep_largest_connected_component(g)
         /\ G_u = mirror(keep_largest_connected_component(g))
    /\ nn_of \in {f \in [1..MaxKm -> 1..RoadNodes] :
                     \A a \in 1..MaxKm : f[a] \in nearest_nodes(G, a)}
    /\ nn_cache = <<>>
    /\ od_cache = <<>>
    /\ q = NoQuery
    /\ rpc = "ready"
    /\ workers = [w \in Workers |-> NoWork]

\* Where a worker goes once both ends are resolved: `if u == v: return 0.1`.
after_nodes(wk) ==
    IF wk.u = wk.v THEN [wk EXCEPT !.pc = "done", !.t = SameNodeSec]
    ELSE [wk EXCEPT !.pc = "od"]

\* The worker's local u or v set to the node found for its coordinate.
with_node(wk, nd) ==
    IF wk.pc \in {"node_a", "miss_a"}
    THEN [wk EXCEPT !.u = nd, !.pc = "node_b"]
    ELSE after_nodes([wk EXCEPT !.v = nd])

\* Worker w calls mean_travel_min(a, b).
Call(w, a, b) ==
    /\ workers[w].pc = "idle"
    /\ workers' = [workers EXCEPT ![w] = [NoWork EXCEPT !.pc = "node_a", !.a = a, !.b = b]]
    /\ UNCHANGED <<nn_of, roadVars, tourVars, tlVars, ptVars, kpiVars, tmVars, runVars, legVars>>

\* _node(lat, lon): the look-up of _nearest_node's cache.
NodeLookup(w) ==
    /\ workers[w].pc \in {"node_a", "node_b"}
    /\ LET wk == workers[w]
           key == IF wk.pc = "node_a" THEN wk.a ELSE wk.b
       IN  workers' = [workers EXCEPT ![w] =
                          IF key \in DOMAIN nn_cache THEN with_node(wk, nn_cache[key])
                          ELSE [wk EXCEPT !.pc = IF wk.pc = "node_a" THEN "miss_a"
                                                 ELSE "miss_b"]]
    /\ UNCHANGED <<nn_of, roadVars, tourVars, tlVars, ptVars, kpiVars, tmVars, runVars, legVars>>

\* After a miss: _nearest_node's body runs and its result is stored.
NodeFill(w) ==
    /\ workers[w].pc \in {"miss_a", "miss_b"}
    /\ LET wk == workers[w]
           key == IF wk.pc = "miss_a" THEN wk.a ELSE wk.b
           nd == nearest_node(nn_of, key)
       IN  /\ nn_cache' = cache_put(nn_cache, key, nd)
           /\ workers' = [workers EXCEPT ![w] =
                             with_node([wk EXCEPT !.computed = @ \cup {<<"nn", key>>}], nd)]
    /\ UNCHANGED <<nn_of, G, G_u, od_cache, q, rpc,
                   tourVars, tlVars, ptVars, kpiVars, tmVars, runVars, legVars>>

\* The time mean_travel_min returns for what _od_time_min gave: the time if
\* finite, the straight-line estimate otherwise.
finite_or_fallback(t, a, b) == IF t # NoneF THEN t[1] ELSE geometric_fallback(a, b)

\* t = self._od_time_min(u, v): the look-up of its cache.
OdLookup(w) ==
    /\ workers[w].pc = "od"
    /\ LET wk == workers[w]
           key == od_key(wk.u, wk.v)
       IN  workers' = [workers EXCEPT ![w] =
                          IF key \in DOMAIN od_cache
                          THEN [wk EXCEPT !.pc = "done",
                                          !.t = finite_or_fallback(od_cache[key], wk.a, wk.b)]
                          ELSE [wk EXCEPT !.pc = "miss_od"]]
    /\ UNCHANGED <<nn_of, roadVars, tourVars, tlVars, ptVars, kpiVars, tmVars, runVars, legVars>>

\* After a miss: _od_time_min's body runs and its result is stored.
OdFill(w) ==
    /\ workers[w].pc = "miss_od"
    /\ LET wk == workers[w]
           key == od_key(wk.u, wk.v)
           res == od_time_min(G, G_u, wk.u, wk.v)
       IN  /\ od_cache' = cache_put(od_cache, key, res.t)
           /\ workers' = [workers EXCEPT ![w] =
                             [wk EXCEPT !.pc = "done",
                                        !.t = finite_or_fallback(res.t, wk.a, wk.b),
                                        !.computed = @ \cup {<<"od", key>>}]]
    /\ UNCHANGED <<nn_of, G, G_u, nn_cache, q, rpc,
                   tourVars, tlVars, ptVars, kpiVars, tmVars, runVars, legVars>>

SharedNext ==
    \E w \in Workers :
        \/ \E a, b \in 1..MaxKm : Call(w, a, b)
        \/ NodeLookup(w)
        \/ NodeFill(w)
        \/ OdLookup(w)
        \/ OdFill(w)

InitShared == SharedInit /\ TourIdle /\ TlIdle /\ PtIdle /\ KpiIdle /\ TmIdle /\ RunIdle /\ LegIdle
SpecShared == InitShared /\ [][SharedNext]_vars

\* What a call mean_travel_min(a, b) returns on a model whose caches are
\* empty and that nobody else uses.
AloneResult(a, b) ==
    LET u == nearest_node(nn_of, a)
        v == nearest_node(nn_of, b)
        directed == shortest_path_length(G, u, v)
        undirected == shortest_path_length(G_u, u, v)
    IN  IF u = v THEN SameNodeSec
        ELSE IF directed # NoneF THEN directed[1]
        ELSE IF undirected # NoneF THEN undirected[1]
        ELSE geometric_fallback(a, b)

\* C30: in every interleaving of the workers' queries, each entry of the
\* nearest-node cache and of the shortest-path cache is what a fresh
\* computation for its key gives, and each query returns what it returns on
\* a model used by nobody else, whoever filled the caches and in what order.
C30_CachesIdempotent ==
    /\ \A a \in DOMAIN nn_cache :
          /\ nn_cache[a] = nearest_node(nn_of, a)
          /\ nn_cache[a] \in nearest_nodes(G, a)
    /\ \A k \in DOMAIN od_cache :
          od_cache[k] = IF shortest_path_length(G, k[1], k[2]) # NoneF
                        THEN shortest_path_length(G, k[1], k[2])
                        ELSE shortest_path_length(G_u, k[1], k[2])
    /\ \A w \in DOMAIN workers :
          workers[w].pc = "done" => workers[w].t = AloneResult(workers[w].a, workers[w].b)

\* C30 witness: the two workers made the same query between two distinct
\* nodes and both computed every entry it needs, so each entry was filled
\* twice; the time has no directed path behind it.
C30_Witness ==
    /\ \A w \in Workers : workers[w].pc = "done"
    /\ workers[1].a = workers[2].a /\ workers[1].b = workers[2].b
    /\ workers[1].u # workers[1].v
    /\ \A w \in Workers : Cardinality(workers[w].computed) = 3
    /\ shortest_path_length(G, workers[1].u, workers[1].v) = NoneF

====
